---- MODULE Spec2Model ----
(***************************************************************************)
(* A model of the mirrord VS Code extension's launch orchestration:        *)
(*   - MirrordAPI.binaryExecute (src/src/api.ts): the supervision of the   *)
(*     `mirrord ext` subprocess, its stdout line decoder, the stderr       *)
(*     sentinel, the close/error handlers and the 120 s timer;             *)
(*   - main (src/src/debugger.ts): the debug configuration resolver and    *)
(*     the patching of the launch configuration;                           *)
(*   - TargetQuickPick (src/src/targetQuickPick.ts): the target picker;    *)
(*   - MirrordStatus.toggle (src/src/status.ts): the status bar switch;    *)
(*   - MirrordConfigManager.resolveMirrordConfig (src/unnamed/part_003):   *)
(*     the choice of the mirrord config file, and the active config with   *)
(*     its listeners;                                                      *)
(*   - MirrordConfigViewProvider (src/unnamed/part_005): the config view.  *)
(***************************************************************************)
EXTENDS Integers, Sequences, FiniteSets, TLC

(***************************************************************************)
(* Bounds of the model.                                                    *)
(***************************************************************************)
\* Number of stdout lines the subprocess writes in one run.
MaxLines == 2
\* Number of stderr lines the subprocess writes in one run.
MaxStderr == 1
\* Number of targets one `mirrord ls` reports.
MaxTargets == 2
\* Number of clicks on the status bar item.
MaxToggles == 2
\* Number of times the config view is resolved.
MaxViews == 2
\* Number of messages posted to the config view's webviews, and of
\* notifications about the active config file.
MaxPosted == 3

VARIABLES
  \* ---- binaryExecute (src/src/api.ts:413-545) ----
  pipe,         \* stdout bytes written by the subprocess, not yet delivered
  written,      \* ghost: the lines the subprocess has written, in order
  buffer,       \* `buffer`: decoded characters not yet consumed
  dispatched,   \* ghost: the messages the stdout handler has dispatched
  stderrData,   \* `stderrData`: the stderr lines received so far
  outcome,      \* the state of the promise returned by binaryExecute
  timerFired,   \* whether the setTimeout callback has run
  proc,         \* the subprocess: "running", "failed" (spawn error), "closed"
  exitStatus,   \* the (code, signal) pair handed to the close handler
  errorNotes,   \* notifications shown by the close handler
  \* ---- main (src/src/debugger.ts:162-271) ----
  enabled,      \* globalContext.workspaceState.get('enabled')
  toggles,      \* ghost: the clicks on the status bar item so far
  statusNotes,  \* the error notifications MirrordStatus.toggle has shown
  platform,     \* os.platform()
  pythonExists, \* fs.existsSync(config["python"])
  config,       \* the debug configuration, mutated in place
  pc,           \* where main is suspended: the await it is waiting on
  ret,          \* what the last call of main returned
  configPath,   \* `configPath`, <<>> when there is no config file
  verifiedConfig, \* `verifiedConfig`: what verify-config said, "none": undefined
  quickPickSelection, \* `quickPickSelection`, <<>> when undefined
  pickKind,     \* ghost: how the picker ended
  spawned,      \* the arguments and environment of the spawned `mirrord ext`
  executionInfo, \* `executionInfo`, <<>> before binaryExecute has resolved
  failureNotes, \* the error notifications main has shown
  effects,      \* ghost: listings, prompts and spawns so far
  operatorUsed, \* the flag setOperatorUsed() records
  \* ---- TargetQuickPick (src/src/targetQuickPick.ts) ----
  workspaceState, \* globalContext.workspaceState.get(LAST_TARGET_KEY), <<>>: undefined
  globalState,  \* globalContext.globalState.get(LAST_TARGET_KEY), <<>>: undefined
  promptTargetless, \* the setting mirrord.promptTargetless
  rawOutput,    \* ghost: the last output of listTargets, before the filter
  lsOutput,     \* `lsOutput`
  activePage,   \* `activePage`, <<>> when undefined
  lastTarget,   \* `lastTarget`, <<>> when undefined
  items,        \* the items of the quick pick on screen
  pickPc,       \* where the picker is: "new", "prompt", "fetching", "done", "raised"
  fetchNs,      \* the namespace of the `mirrord ls` in flight
  userSelection, \* what showAndGet returned, <<>> before it has
  notices,      \* the notifications showAndGet has shown
  lastEvent,    \* ghost: the last thing that happened to the picker
  \* ---- MirrordConfigManager (src/unnamed/part_003) ----
  active,       \* `active`, <<>> when undefined
  launchEnvFile, \* config.env?.["MIRRORD_CONFIG_FILE"], <<>> when undefined
  folder,       \* the `folder` argument, <<>> when undefined
  workspaceFolders, \* vscode.workspace.workspaceFolders
  folderFiles,  \* the default config files of each workspace folder
  resolved,     \* what resolveMirrordConfig did: "none", "returned", "threw"
  resolvedPath, \* the Uri it returned, <<>> for null
  configNotes,  \* the notifications the config manager has shown
  \* ---- MirrordConfigViewProvider (src/unnamed/part_005:235-380) ----
  view,         \* `_view`: the id of the last resolved view, <<>> when undefined
  activeConfigListeners, \* the number of listeners of the config manager
  readyInFlight, \* the views whose 'ready' message has not been handled yet
  posted,       \* the messages posted to the webviews, in order
  listenerCalls \* ghost: the arguments of the listeners' last invocations

execVars == <<pipe, written, buffer, dispatched, stderrData, outcome,
              timerFired, proc, exitStatus, errorNotes>>

mainVars == <<enabled, toggles, statusNotes, platform, pythonExists, config, pc, ret,
              configPath, verifiedConfig, quickPickSelection, pickKind, spawned, executionInfo,
              failureNotes, effects, operatorUsed>>

pickVars == <<workspaceState, globalState, promptTargetless, rawOutput, lsOutput,
              activePage, lastTarget, items, pickPc, fetchNs, userSelection, notices,
              lastEvent>>

cfgVars == <<active, launchEnvFile, folder, workspaceFolders, folderFiles,
             resolved, resolvedPath, configNotes>>

viewVars == <<view, activeConfigListeners, readyInFlight, posted, listenerCalls>>

vars == <<execVars, mainVars, pickVars, cfgVars, viewVars>>

\* The picker before TargetQuickPick.new.
PickIdle ==
  /\ workspaceState = <<>>
  /\ globalState = <<>>
  /\ promptTargetless = TRUE
  /\ rawOutput = <<>>
  /\ lsOutput = <<>>
  /\ activePage = <<>>
  /\ lastTarget = <<>>
  /\ items = <<>>
  /\ pickPc = "new"
  /\ fetchNs = <<>>
  /\ userSelection = <<>>
  /\ notices = <<>>
  /\ lastEvent = "none"

\* The config manager of a window with no folder and no active config.
ConfigIdle ==
  /\ active = <<>>
  /\ launchEnvFile = <<>>
  /\ folder = <<>>
  /\ workspaceFolders = <<>>
  /\ folderFiles = <<>>
  /\ resolved = "none"
  /\ resolvedPath = <<>>
  /\ configNotes = <<>>

\* The config view before it is resolved.
ViewIdle ==
  /\ view = <<>>
  /\ activeConfigListeners = 0
  /\ readyInFlight = {}
  /\ posted = <<>>
  /\ listenerCalls = <<>>

(***************************************************************************)
(* Bytes and characters.  The subprocess writes UTF-8; a line is one       *)
(* ASCII tag byte, an optional two-byte character (lead byte "L",          *)
(* continuation byte "C") and the newline "NL".  A chunk is turned into    *)
(* characters on its own: "e" is the decoded two-byte character and "?"    *)
(* is U+FFFD, what a decoder gives for a truncated or a stray byte.        *)
(***************************************************************************)
NL == "NL"

\* The tags of the lines the subprocess writes.
\*   "F"  {name: "mirrord preparing to launch", type: "FinishedTask", success: true}
\*   "f"  the same with success: false
\*   "W"  {type: "Warning"}   "I"  {type: "Info"}   "M"  {type: "IdeMessage"}
\*   "P"  any other object: generic progress
\*   "x"  a line that is not JSON
JsonTags == {"F", "f", "W", "I", "M", "P"}

\* The lines of the subprocess, as byte sequences without the newline.
\* <<>> is an empty line.
Lines == {<<"F">>, <<"F", "L", "C">>, <<"f">>, <<"W">>, <<"I">>, <<"M">>,
          <<"P">>, <<"P", "L", "C">>, <<"x">>, <<>>}

\* Buffer.prototype.toString('utf8') of one chunk, which is what
\* `buffer += data` applies to the chunk.
RECURSIVE Utf8ToString(_)
Utf8ToString(bytes) ==
  IF bytes = <<>> THEN <<>>
  ELSE IF Head(bytes) = "L"
    THEN IF Len(bytes) >= 2 /\ bytes[2] = "C"
           THEN <<"e">> \o Utf8ToString(SubSeq(bytes, 3, Len(bytes)))
           ELSE <<"?">> \o Utf8ToString(Tail(bytes))
    ELSE IF Head(bytes) = "C"
      THEN <<"?">> \o Utf8ToString(Tail(bytes))
      ELSE <<Head(bytes)>> \o Utf8ToString(Tail(bytes))

\* String.prototype.split("\n").
RECURSIVE Split(_)
Split(s) ==
  IF \A i \in 1..Len(s) : s[i] # NL THEN <<s>>
  ELSE LET i == CHOOSE j \in 1..Len(s) :
                  s[j] = NL /\ \A k \in 1..(j-1) : s[k] # NL
       IN <<SubSeq(s, 1, i - 1)>> \o Split(SubSeq(s, i + 1, Len(s)))

\* JSON.parse of one raw line: ok is FALSE when it throws.
JsonParse(raw) ==
  IF raw # <<>> /\ raw[1] \in JsonTags
        /\ \A i \in 2..Len(raw) : raw[i] \in {"e", "?"}
    THEN [ok |-> TRUE, tag |-> raw[1], text |-> Tail(raw)]
    ELSE [ok |-> FALSE, tag |-> "x", text |-> <<>>]

(***************************************************************************)
(* The promise of binaryExecute.                                           *)
(***************************************************************************)
Pending == [kind |-> "pending", val |-> <<>>]
Resolved(result) == [kind |-> "resolved", val |-> result]
Rejected(reason) == [kind |-> "rejected", val |-> reason]

\* A mutant of Settle: the last call wins.
SettleLastWins(o, new) == new

\* resolve()/reject() of a promise: only the first call settles it.
Settle(o, new) == IF o.kind = "pending" THEN new ELSE o

\* MirrordExecution.mirrordExecutionFromJson(message["message"]).
mirrordExecutionFromJson(text) == <<"execution", text>>

(***************************************************************************)
(* The stdout "data" handler.                                              *)
(***************************************************************************)
\* A mutant of IsLastMessage: `success` is not looked at.
IsLastMessageAnyFinished(message) == message.tag \in {"F", "f"}

\* The message is the FinishedTask of "mirrord preparing to launch" and its
\* `success` is true.
IsLastMessage(message) == message.tag = "F"

\* The loop over messages.slice(0, -1); st is [buffer, dispatched, outcome].
RECURSIVE StdoutLoop(_, _)
StdoutLoop(messages, st) ==
  IF messages = <<>> THEN st
  ELSE
    LET rawMessage == Head(messages) IN
    IF rawMessage = <<>> THEN st                       \* if (!rawMessage) break
    ELSE
      LET sliced == SubSeq(st.buffer, Len(rawMessage) + 2, Len(st.buffer))
          message == JsonParse(rawMessage)
      IN
      IF ~message.ok
        THEN [st EXCEPT !.buffer = sliced]             \* catch: return
      ELSE IF IsLastMessage(message)
        THEN [buffer |-> sliced,
              dispatched |-> Append(st.dispatched, [tag |-> message.tag,
                                                    text |-> message.text]),
              outcome |-> Settle(st.outcome,
                                 Resolved(mirrordExecutionFromJson(message.text)))]
      ELSE StdoutLoop(Tail(messages),
                      [st EXCEPT !.buffer = sliced,
                                 !.dispatched = Append(@, [tag |-> message.tag,
                                                           text |-> message.text])])

\* child.stdout.on("data", ...)
OnStdoutData(data, st) ==
  LET buf == st.buffer \o Utf8ToString(data)
      messages == Split(buf)
  IN StdoutLoop(SubSeq(messages, 1, Len(messages) - 1), [st EXCEPT !.buffer = buf])

(***************************************************************************)
(* The close handler.                                                      *)
(***************************************************************************)
\* The stderr lines of the subprocess: a line without the sentinel, lines
\* "Error: <json>" whose JSON carries a message and possibly a help, and a
\* line "Error: <text>" whose text is no JSON (json is FALSE: JSON.parse
\* throws on it).
StderrLines ==
  {[sentinel |-> FALSE, json |-> FALSE, message |-> "none", help |-> FALSE],
   [sentinel |-> TRUE, json |-> TRUE, message |-> "m1", help |-> FALSE],
   [sentinel |-> TRUE, json |-> TRUE, message |-> "m2", help |-> TRUE],
   [sentinel |-> TRUE, json |-> FALSE, message |-> "none", help |-> FALSE]}

\* stderrData.match(/Error: (.*)/)?.[1]: the first sentinel line, or <<>>.
SentinelMatch(data) ==
  IF \E i \in 1..Len(data) : data[i].sentinel
    THEN <<data[CHOOSE i \in 1..Len(data) :
                   data[i].sentinel /\ \A j \in 1..(i-1) : ~data[j].sentinel]>>
    ELSE <<>>

\* The exit statuses of a child process: exactly one of code and signal is set.
NoCode == -1
NoSignal == "null"
ExitStatuses == {[code |-> 0, signal |-> NoSignal],
                 [code |-> 1, signal |-> NoSignal],
                 [code |-> NoCode, signal |-> "SIGKILL"]}

\* A mutant of CloseOutcome: the exit code is looked at before the sentinel.
CloseOutcomeCodeFirst(o, data, status) ==
  IF status.code # NoCode /\ status.code # 0
    THEN Settle(o, Rejected(<<"code", status.code>>))
  ELSE IF SentinelMatch(data) # <<>>
    THEN IF SentinelMatch(data)[1].json
           THEN Settle(o, Rejected(<<"error", SentinelMatch(data)[1].message>>))
           ELSE o
  ELSE IF status.signal # NoSignal
    THEN Settle(o, Rejected(<<"signal", status.signal>>))
  ELSE o

\* child.on("close", (code, signal) => ...): the promise after the handler.
\* When JSON.parse(match) throws, the handler is left by the exception and
\* none of its reject calls runs.
CloseOutcome(o, data, status) ==
  IF SentinelMatch(data) # <<>>
    THEN IF SentinelMatch(data)[1].json
           THEN Settle(o, Rejected(<<"error", SentinelMatch(data)[1].message>>))
           ELSE o
  ELSE IF status.code # NoCode /\ status.code # 0
    THEN Settle(o, Rejected(<<"code", status.code>>))
  ELSE IF status.signal # NoSignal
    THEN Settle(o, Rejected(<<"signal", status.signal>>))
  ELSE o

\* The notification the close handler shows: one, when the sentinel matched.
CloseNotes(data) ==
  IF SentinelMatch(data) # <<>> /\ SentinelMatch(data)[1].json
    THEN <<[message |-> SentinelMatch(data)[1].message,
            actions |-> IF SentinelMatch(data)[1].help THEN {"Help"} ELSE {}]>>
    ELSE <<>>

(***************************************************************************)
(* Actions of binaryExecute.                                               *)
(***************************************************************************)
InitExec ==
  /\ pipe = <<>>
  /\ written = <<>>
  /\ buffer = <<>>
  /\ dispatched = <<>>
  /\ stderrData = <<>>
  /\ outcome = Pending
  /\ timerFired = FALSE
  /\ proc = "running"
  /\ exitStatus = [code |-> NoCode, signal |-> NoSignal]
  /\ errorNotes = <<>>

\* The subprocess writes one line to its stdout.
ProcWrite(line) ==
  /\ proc = "running"
  /\ Len(written) < MaxLines
  /\ pipe' = pipe \o line \o <<NL>>
  /\ written' = Append(written, line)
  /\ UNCHANGED <<buffer, dispatched, stderrData, outcome, timerFired, proc,
                 exitStatus, errorNotes>>
  /\ UNCHANGED <<mainVars, pickVars, cfgVars, viewVars>>

\* A prefix of the pipe arrives as one "data" event.
StdoutData ==
  \E k \in 1..Len(pipe) :
  /\ LET st == OnStdoutData(SubSeq(pipe, 1, k),
                            [buffer |-> buffer, dispatched |-> dispatched,
                             outcome |-> outcome])
     IN /\ buffer' = st.buffer
        /\ dispatched' = st.dispatched
        /\ outcome' = st.outcome
  /\ pipe' = SubSeq(pipe, k + 1, Len(pipe))
  /\ UNCHANGED <<written, stderrData, timerFired, proc, exitStatus, errorNotes>>
  /\ UNCHANGED <<mainVars, pickVars, cfgVars, viewVars>>

\* child.stderr.on("data", (data) => stderrData += data.toString())
StderrData(line) ==
  /\ proc = "running"
  /\ Len(stderrData) < MaxStderr
  /\ stderrData' = Append(stderrData, line)
  /\ UNCHANGED <<pipe, written, buffer, dispatched, outcome, timerFired, proc,
                 exitStatus, errorNotes>>
  /\ UNCHANGED <<mainVars, pickVars, cfgVars, viewVars>>

\* A mutant of TimerFire: the callback runs and rejects nothing.
TimerFireNoReject ==
  /\ ~timerFired
  /\ timerFired' = TRUE
  /\ UNCHANGED <<pipe, written, buffer, dispatched, stderrData, outcome, proc,
                 exitStatus, errorNotes>>
  /\ UNCHANGED <<mainVars, pickVars, cfgVars, viewVars>>

\* setTimeout(() => reject("timeout"), 120 * 1000)
TimerFire ==
  /\ ~timerFired
  /\ timerFired' = TRUE
  /\ outcome' = Settle(outcome, Rejected(<<"timeout">>))
  /\ UNCHANGED <<pipe, written, buffer, dispatched, stderrData, proc,
                 exitStatus, errorNotes>>
  /\ UNCHANGED <<mainVars, pickVars, cfgVars, viewVars>>

\* The err.message of a failed spawn.
SpawnErrors == {"spawn mirrord ENOENT", "spawn mirrord EACCES"}

\* child.on("error", ...): the process could not be spawned.
SpawnError(err) ==
  /\ proc = "running"
  /\ written = <<>> /\ stderrData = <<>>
  /\ proc' = "failed"
  /\ outcome' = Settle(outcome, Rejected(<<"process failed", err>>))
  /\ UNCHANGED <<pipe, written, buffer, dispatched, stderrData, timerFired,
                 exitStatus, errorNotes>>
  /\ UNCHANGED <<mainVars, pickVars, cfgVars, viewVars>>

\* child.on("close", ...): the process has ended and its streams are drained.
Close(status) ==
  /\ proc = "running"
  /\ pipe = <<>>
  /\ proc' = "closed"
  /\ exitStatus' = status
  /\ outcome' = CloseOutcome(outcome, stderrData, status)
  /\ errorNotes' = errorNotes \o CloseNotes(stderrData)
  /\ UNCHANGED <<pipe, written, buffer, dispatched, stderrData, timerFired>>
  /\ UNCHANGED <<mainVars, pickVars, cfgVars, viewVars>>

\* The (code, signal) of the close event that follows a failed spawn: the
\* negative errno and no signal.
SpawnFailedStatus == [code |-> -2, signal |-> NoSignal]

\* The close event after a failed spawn: the close handler runs once more.
CloseAfterSpawnError ==
  /\ proc = "failed"
  /\ proc' = "closed"
  /\ exitStatus' = SpawnFailedStatus
  /\ outcome' = CloseOutcome(outcome, stderrData, SpawnFailedStatus)
  /\ errorNotes' = errorNotes \o CloseNotes(stderrData)
  /\ UNCHANGED <<pipe, written, buffer, dispatched, stderrData, timerFired>>
  /\ UNCHANGED <<mainVars, pickVars, cfgVars, viewVars>>

\* main while binaryExecute runs: suspended on its await.
MainExecuting ==
  /\ enabled = TRUE
  /\ toggles = 0
  /\ statusNotes = <<>>
  /\ platform = "linux"
  /\ pythonExists = FALSE
  /\ config = [type |-> "node", request |-> "launch", parentId |-> FALSE,
               env |-> <<>>, fields |-> <<>>]
  /\ pc = "executing"
  /\ ret = "none"
  /\ configPath = <<>>
  /\ verifiedConfig = "none"
  /\ quickPickSelection = <<>>
  /\ pickKind = "none"
  /\ spawned = <<>>
  /\ executionInfo = <<>>
  /\ failureNotes = <<>>
  /\ effects = [lists |-> 0, prompts |-> 0, spawns |-> 1]
  /\ operatorUsed = FALSE

NextExec ==
  \/ \E line \in Lines : ProcWrite(line)
  \/ StdoutData
  \/ \E line \in StderrLines : StderrData(line)
  \/ TimerFire
  \/ \E err \in SpawnErrors : SpawnError(err)
  \/ \E status \in ExitStatuses : Close(status)
  \/ CloseAfterSpawnError

InitSpecExec ==
  /\ InitExec
  /\ MainExecuting
  /\ PickIdle
  /\ ConfigIdle
  /\ ViewIdle

SpecExec == InitSpecExec /\ [][NextExec]_vars

\* The timer is a callback of the event loop: once set it runs.
FairSpecExec == SpecExec /\ WF_vars(TimerFire)

(***************************************************************************)
(* Properties of binaryExecute.                                            *)
(***************************************************************************)
\* A Finished{success:true} message has been decoded.
FinishedDecoded == \E i \in 1..Len(dispatched) : dispatched[i].tag = "F"

\* This step decodes a Finished{success:true} message.
DecodesFinished ==
  /\ Len(dispatched') > Len(dispatched)
  /\ dispatched'[Len(dispatched')].tag = "F"

\* C1: a Finished{success:true} decoded while the call is pending resolves
\* the call with the execution parsed from that message, and once the call
\* is resolved no later event (stderr sentinel, exit code, signal, timer)
\* changes its outcome.
C1_FirstSuccessWins ==
  [][ /\ (outcome.kind = "pending" /\ DecodesFinished) =>
           outcome' = Resolved(mirrordExecutionFromJson(
                                  dispatched'[Len(dispatched')].text))
      /\ outcome.kind = "resolved" => outcome' = outcome ]_vars

\* C1 witness: the call is resolved although the process then wrote the
\* error sentinel, exited with code 1, and the timer fired.
C1_Witness ==
  /\ outcome.kind = "resolved"
  /\ SentinelMatch(stderrData) # <<>>
  /\ proc = "closed" /\ exitStatus.code = 1
  /\ timerFired

C3_StreamEndedWithoutResult ==
  (/\ proc = "closed"
   /\ exitStatus.code = 0 /\ exitStatus.signal = NoSignal
   /\ SentinelMatch(stderrData) = <<>>
   /\ ~FinishedDecoded
   /\ ~timerFired) => outcome.kind = "rejected"

\* This step is the close handler running while the call is pending.
ClosesPending == proc = "running" /\ proc' = "closed" /\ outcome.kind = "pending"

\* C4: at process exit before any result: the message of the stderr
\* sentinel's JSON if the sentinel is there (the first one, when there are
\* several), whatever the exit status; otherwise the non-zero exit code;
\* otherwise the signal.
C4_ExitPriorities ==
  [][ ClosesPending =>
        /\ \A i \in 1..Len(stderrData) :
              (/\ stderrData[i].sentinel /\ stderrData[i].json
               /\ \A j \in 1..(i-1) : ~stderrData[j].sentinel) =>
                 outcome' = Rejected(<<"error", stderrData[i].message>>)
        /\ ((\A i \in 1..Len(stderrData) : ~stderrData[i].sentinel)
              /\ exitStatus'.code = 1) =>
              outcome' = Rejected(<<"code", 1>>)
        /\ ((\A i \in 1..Len(stderrData) : ~stderrData[i].sentinel)
              /\ exitStatus'.code \in {0, NoCode}
              /\ exitStatus'.signal # NoSignal) =>
              outcome' = Rejected(<<"signal", exitStatus'.signal>>) ]_vars

\* C4 witness: the process exited with code 1 after writing the sentinel,
\* and the call failed with the sentinel's message.
C4_Witness ==
  /\ proc = "closed" /\ exitStatus.code = 1
  /\ SentinelMatch(stderrData) # <<>> /\ SentinelMatch(stderrData)[1].json
  /\ outcome.kind = "rejected" /\ outcome.val[1] = "error"

\* The messages of the written lines that are JSON, up to and including the
\* first Finished{success:true}: what a decoder of the stream dispatches.
RECURSIVE ExpectedDispatch(_)
ExpectedDispatch(lines) ==
  IF lines = <<>> THEN <<>>
  ELSE LET m == JsonParse(Utf8ToString(Head(lines))) IN
       IF ~m.ok THEN ExpectedDispatch(Tail(lines))
       ELSE IF m.tag = "F" THEN <<[tag |-> m.tag, text |-> m.text]>>
       ELSE <<[tag |-> m.tag, text |-> m.text]>> \o ExpectedDispatch(Tail(lines))

TagsOf(msgs) == [i \in 1..Len(msgs) |-> msgs[i].tag]

IsPrefix(s, t) == Len(s) <= Len(t) /\ SubSeq(t, 1, Len(s)) = s

\* No written line is empty.
NoEmptyLine == \A i \in 1..Len(written) : written[i] # <<>>

\* C5: a line that is not JSON is dropped and the lines after it are still
\* decoded: once every byte has been delivered, every JSON line that was
\* written (up to the Finished message) has been dispatched, whatever
\* malformed lines came before it.
C5_MalformedLineSkipped ==
  (NoEmptyLine /\ pipe = <<>>) =>
     IsPrefix(TagsOf(ExpectedDispatch(written)), TagsOf(dispatched))

\* Every written line is a JSON line.
AllWellFormed == \A i \in 1..Len(written) : JsonParse(Utf8ToString(written[i])).ok

\* The dispatched messages up to and including the first Finished.
UpToFinished(msgs) ==
  IF \E i \in 1..Len(msgs) : msgs[i].tag = "F"
    THEN SubSeq(msgs, 1, CHOOSE i \in 1..Len(msgs) :
                            msgs[i].tag = "F" /\ \A j \in 1..(i-1) : msgs[j].tag # "F")
    ELSE msgs

\* C6: for a stream of well-formed lines, however it is cut into chunks, the
\* dispatched messages are the lines of the stream, in order and once each,
\* and all of them once all the bytes have arrived.
C6_ChunkingIrrelevant ==
  AllWellFormed =>
    /\ IsPrefix(UpToFinished(dispatched), ExpectedDispatch(written))
    /\ pipe = <<>> => UpToFinished(dispatched) = ExpectedDispatch(written)

\* Every written line is empty or a JSON line, and some line is empty.
EmptyAmongWellFormed ==
  /\ \E i \in 1..Len(written) : written[i] = <<>>
  /\ \A i \in 1..Len(written) :
        written[i] = <<>> \/ JsonParse(Utf8ToString(written[i])).ok

\* C35: an empty stdout line is skipped: once every byte of a stream of
\* empty and well-formed lines has been delivered, every well-formed line
\* (up to the Finished message) has been dispatched, those after the empty
\* line included.
C35_EmptyLineSkipped ==
  (EmptyAmongWellFormed /\ pipe = <<>>) =>
     IsPrefix(TagsOf(ExpectedDispatch(written)), TagsOf(dispatched))

\* The first "Error: " line of stderr carries text that is no JSON.
SentinelNotJson ==
  SentinelMatch(stderrData) # <<>> /\ ~SentinelMatch(stderrData)[1].json

\* C36: a process that exits with "Error: " followed by text that is no
\* JSON on stderr, and without a successful Finished message, makes the
\* call fail at process exit (before the timer has fired).
C36_NonJsonSentinelFailsAtExit ==
  (/\ proc = "closed"
   /\ SentinelNotJson
   /\ ~FinishedDecoded
   /\ ~timerFired) => outcome.kind = "rejected"

\* C37: a call that resolved successfully shows no error notification,
\* also when the process afterwards exits with the error sentinel on stderr.
C37_NoErrorNotificationAfterSuccess ==
  outcome.kind = "resolved" => errorNotes = <<>>

\* C23: once a Finished{success:true} message has been decoded, no stdout
\* message that follows it is dispatched, whether it was buffered in the
\* same chunk or arrives in a later chunk.
C23_NothingDispatchedAfterFinished ==
  [][FinishedDecoded => dispatched' = dispatched]_vars

\* This step dispatches stdout messages, none of them a Finished{success:
\* true}, and is no step of the timer or of the process ending.
DecodesOnlyOthers ==
  /\ Len(dispatched') > Len(dispatched)
  /\ \A i \in (Len(dispatched) + 1)..Len(dispatched') : dispatched'[i].tag # "F"
  /\ timerFired' = timerFired
  /\ proc' = proc

\* C25: decoding a Finished{success:false}, a Warning, an Info, an
\* IdeMessage or a progress message neither resolves nor fails the call:
\* the step leaves the outcome as it was, and while only such messages have
\* been decoded, the process runs and the timer has not fired, the call is
\* pending.
C25_OtherMessagesKeepPending ==
  /\ [][DecodesOnlyOthers => outcome' = outcome]_vars
  /\ []((~FinishedDecoded /\ proc = "running" /\ ~timerFired) => outcome = Pending)

\* C25 witness: a Finished{success:false} and one of the other messages
\* have been decoded and the call is pending.
C25_Witness ==
  /\ Len(dispatched) = 2
  /\ dispatched[1].tag = "f"
  /\ dispatched[2].tag \in {"W", "I", "M", "P"}
  /\ outcome = Pending

\* The call has failed with a launch failure.
LaunchFailure == outcome.kind = "rejected" /\ outcome.val[1] = "process failed"

\* C33: a spawn error while the call is pending fails it in that step, with
\* a launch failure that carries the error's text, whether or not the timer
\* has fired; no later event, the close event included, replaces it.
C33_SpawnErrorFailsAtOnce ==
  [][ /\ (proc = "running" /\ proc' = "failed" /\ outcome.kind = "pending") =>
           /\ LaunchFailure'
           /\ outcome'.val[2] \in SpawnErrors
           /\ timerFired' = timerFired
      /\ LaunchFailure => outcome' = outcome ]_vars

\* C33 witness: the spawn failed before the timer fired, and the close event
\* of the failed spawn has been handled since.
C33_Witness ==
  /\ LaunchFailure
  /\ outcome.val[2] = "spawn mirrord ENOENT"
  /\ proc = "closed"
  /\ exitStatus = SpawnFailedStatus
  /\ ~timerFired

(***************************************************************************)
(* The debug configuration and its environment.                            *)
(***************************************************************************)
MIRRORD_ACTIVE == "MIRRORD_ACTIVE"
INJECTED == "__MIRRORD_EXT_INJECTED"
MIRRORD_LS_TARGET_TYPES_ENV == "MIRRORD_LS_TARGET_TYPES"
MIRRORD_SKIP_PROCESSES == "MIRRORD_SKIP_PROCESSES"
MIRRORD_DETECT_DEBUGGER_PORT == "MIRRORD_DETECT_DEBUGGER_PORT"
MIRRORD_IGNORE_DEBUGGER_PORTS == "MIRRORD_IGNORE_DEBUGGER_PORTS"
DYLD_ENV_VAR_NAME == "DYLD_INSERT_LIBRARIES"

\* An object with no key.
EmptyEnv == [k \in {} |-> ""]

\* obj[k] = v
EnvSet(env, k, v) == [x \in DOMAIN env \cup {k} |-> IF x = k THEN v ELSE env[x]]

\* obj?.[k] === v
EnvIs(env, k, v) == k \in DOMAIN env /\ env[k] = v

\* A mutant of ObjectAssign: the earlier source wins.
ObjectAssignFirstWins(a, b) ==
  [x \in DOMAIN a \cup DOMAIN b |-> IF x \in DOMAIN a THEN a[x] ELSE b[x]]

\* Object.assign({}, a, b), and the spread {...a, ...b}: the later source wins.
ObjectAssign(a, b) ==
  [x \in DOMAIN a \cup DOMAIN b |-> IF x \in DOMAIN b THEN b[x] ELSE a[x]]

\* The environments a launch configuration comes with.  A configuration
\* without env is the one with the empty env.
BaseEnvs ==
  { ObjectAssign(ObjectAssign(a, m), i) :
      a \in {EmptyEnv, [k \in {"A"} |-> "1"]},
      m \in {EmptyEnv, [k \in {MIRRORD_ACTIVE} |-> "0"], [k \in {MIRRORD_ACTIVE} |-> "1"]},
      i \in {EmptyEnv, [k \in {INJECTED} |-> "true"]} }

\* The type of a configuration with the fields that can hold its executable.
ConfigShapes ==
  { [type |-> "node",          fields |-> [f \in {"runtimeExecutable"} |-> <<"orig">>]],
    [type |-> "node",          fields |-> EmptyEnv],
    [type |-> "node-terminal", fields |-> [f \in {"command"} |-> <<"orig">>]],
    [type |-> "python",        fields |-> [f \in {"python"} |-> <<"orig">>]],
    [type |-> "python",        fields |-> [f \in {"pythonPath"} |-> <<"orig">>]],
    [type |-> "go",            fields |-> [f \in {"program"} |-> <<"orig">>]],
    [type |-> "lldb",          fields |-> [f \in {"python", "program"} |-> <<"orig">>]] }

Platforms == {"darwin", "linux", "win32"}

\* config[f], <<>> when the field is undefined.
Field(cfg, f) == IF f \in DOMAIN cfg.fields THEN cfg.fields[f] ELSE <<>>

\* vscode.env.shell
Shell == <<"shell">>

\* A mutant of getFieldAndExecutable: an unknown type always gives program.
getFieldAndExecutableProgramDefault(cfg, exists) ==
  CASE cfg.type \in {"pwa-node", "node"} ->
         [field |-> "runtimeExecutable", executable |-> Field(cfg, "runtimeExecutable")]
    [] cfg.type = "node-terminal" ->
         [field |-> "command", executable |-> Shell]
    [] cfg.type \in {"debugpy", "python"} ->
         IF "python" \in DOMAIN cfg.fields
           THEN [field |-> "python", executable |-> Field(cfg, "python")]
           ELSE [field |-> "pythonPath", executable |-> Field(cfg, "pythonPath")]
    [] OTHER -> [field |-> "program", executable |-> Field(cfg, "program")]

\* getFieldAndExecutable(config): the field name and the executable.
getFieldAndExecutable(cfg, exists) ==
  CASE cfg.type \in {"pwa-node", "node"} ->
         [field |-> "runtimeExecutable", executable |-> Field(cfg, "runtimeExecutable")]
    [] cfg.type = "node-terminal" ->
         [field |-> "command", executable |-> Shell]
    [] cfg.type \in {"debugpy", "python"} ->
         IF "python" \in DOMAIN cfg.fields
           THEN [field |-> "python", executable |-> Field(cfg, "python")]
           ELSE [field |-> "pythonPath", executable |-> Field(cfg, "pythonPath")]
    [] OTHER ->
         IF "python" \in DOMAIN cfg.fields /\ exists
           THEN [field |-> "python", executable |-> Field(cfg, "python")]
           ELSE [field |-> "program", executable |-> Field(cfg, "program")]

\* A mutant of changeConfigForSip: without a patched path nothing is changed.
changeConfigForSipPatchedOnly(cfg, executableFieldName, info) ==
  IF info.patchedPath = <<>> THEN cfg.fields
  ELSE [x \in DOMAIN cfg.fields \cup {executableFieldName} |->
          IF x # executableFieldName THEN cfg.fields[x]
          ELSE IF cfg.type = "node-terminal"
            THEN <<"echo", Field(cfg, executableFieldName),
                   IF DYLD_ENV_VAR_NAME \in DOMAIN info.env
                     THEN info.env[DYLD_ENV_VAR_NAME] ELSE "undefined",
                   info.patchedPath>>
            ELSE info.patchedPath]

\* changeConfigForSip(config, executableFieldName, executionInfo): the fields after it.
changeConfigForSip(cfg, executableFieldName, info) ==
  IF cfg.type = "node-terminal"
    THEN [x \in DOMAIN cfg.fields \cup {executableFieldName} |->
            IF x = executableFieldName
              THEN <<"echo", Field(cfg, executableFieldName),
                     IF DYLD_ENV_VAR_NAME \in DOMAIN info.env
                       THEN info.env[DYLD_ENV_VAR_NAME] ELSE "undefined",
                     IF info.patchedPath # <<>> THEN info.patchedPath ELSE Shell>>
              ELSE cfg.fields[x]]
  ELSE IF info.patchedPath # <<>>
    THEN [x \in DOMAIN cfg.fields \cup {executableFieldName} |->
            IF x = executableFieldName THEN info.patchedPath ELSE cfg.fields[x]]
  ELSE cfg.fields

\* getPatchInfo(config) of patchConfigForWindows: the field to patch, <<>> for null.
getPatchInfo(cfg) ==
  CASE cfg.type \in {"pwa-node", "node"} -> <<"runtimeExecutable">>
    [] cfg.type \in {"debugpy", "python"} ->
         IF "python" \in DOMAIN cfg.fields THEN <<"python">>
         ELSE IF "pythonPath" \in DOMAIN cfg.fields THEN <<"pythonPath">>
         ELSE <<"python">>
    [] OTHER -> IF "program" \in DOMAIN cfg.fields THEN <<"program">> ELSE <<>>

\* The fields after `if (isWindows) { ... config[patchField] = scriptPath }`.
patchConfigForWindows(cfg) ==
  IF getPatchInfo(cfg) = <<>> THEN cfg.fields
  ELSE [x \in DOMAIN cfg.fields \cup {getPatchInfo(cfg)[1]} |->
          IF x = getPatchInfo(cfg)[1] THEN <<"script">> ELSE cfg.fields[x]]

(***************************************************************************)
(* The picker's result, as main receives it.                               *)
(***************************************************************************)
\* TARGETLESS_ITEM.value
TARGETLESS == "targetless"

\* The namespaces of a listing; <<>> is undefined (no namespace support).
PickNamespaces == {<<>>, <<"ns1">>}

\* The paths of the targets a listing offers.
PickTargets == {"pod/api-1"}

\* showAndGet(), case 'target': the item picked is a target or TARGETLESS_ITEM.
TargetReturn(value, namespace) == [path |-> value, namespace |-> namespace]

\* showAndGet(), case undefined: the picker was dismissed.
DismissReturn(namespace) == [path |-> TARGETLESS, namespace |-> namespace]

(***************************************************************************)
(* The call of `mirrord ext`.                                              *)
(***************************************************************************)
\* A mutant of makeMirrordArgs: the config file is pushed before the target.
makeMirrordArgsConfigFirst(target, configFilePath, userExecutable) ==
  <<"ext">>
    \o (IF configFilePath # <<>> THEN <<"-f", configFilePath[1]>> ELSE <<>>)
    \o (IF target # <<>> THEN <<"-t", target[1]>> ELSE <<>>)
    \o (IF userExecutable # <<>> THEN <<"-e", userExecutable[1]>> ELSE <<>>)

\* makeMirrordArgs(target, configFilePath, userExecutable); <<>> is undefined/null.
makeMirrordArgs(target, configFilePath, userExecutable) ==
  <<"ext">>
    \o (IF target # <<>> THEN <<"-t", target[1]>> ELSE <<>>)
    \o (IF configFilePath # <<>> THEN <<"-f", configFilePath[1]>> ELSE <<>>)
    \o (IF userExecutable # <<>> THEN <<"-e", userExecutable[1]>> ELSE <<>>)

\* process.env of the extension host.
ProcessEnv == [k \in {"A", "PATH"} |-> IF k = "A" THEN "0" ELSE "/bin"]

\* MirrordAPI.getEnv(configEnv)
getEnv(configEnv) ==
  ObjectAssign(ObjectAssign(ProcessEnv, configEnv),
               [k \in {"MIRRORD_PROGRESS_MODE", "MIRRORD_PROGRESS_SUPPORT_IDE",
                       "MIRRORD_LS_RICH_OUTPUT"} |->
                  IF k = "MIRRORD_PROGRESS_MODE" THEN "json" ELSE "true"])

\* The env binaryExecute hands to spawnCliWithArgsAndEnv, for a workspace
\* whose git branch name is empty.
binaryExecuteEnv(selection, configEnv) ==
  IF selection # <<>> /\ selection[1].namespace # <<>>
    THEN ObjectAssign([k \in {"MIRRORD_TARGET_NAMESPACE"} |-> selection[1].namespace[1]],
                      configEnv)
    ELSE configEnv

\* The results `mirrord ext` reports: MirrordExecution.
\* envToUnset is <<>> when undefined, <<keys>> otherwise.
ResultEnvs ==
  { EmptyEnv,
    [k \in {"A"} |-> "2"],
    [k \in {"A", "B"} |-> "2"],
    [k \in {"A", "B", MIRRORD_IGNORE_DEBUGGER_PORTS} |-> "2"],
    [k \in {"A", DYLD_ENV_VAR_NAME} |-> "2"] }

Executions ==
  [env : ResultEnvs,
   patchedPath : {<<>>, <<"patched">>},
   envToUnset : {<<>>, <<{}>>, <<{"A"}>>},
   usesOperator : BOOLEAN]

\* The reasons binaryExecute rejects with.
RejectReasons == {"timeout", "process failed", "error", "code", "signal"}

\* mirrordFailure(error): one error notification with three support actions.
mirrordFailure(error) ==
  [message |-> error,
   actions |-> {"Get help on Slack", "Open an issue on GitHub", "Send us an email"}]

(***************************************************************************)
(* main                                                                    *)
(***************************************************************************)
NoEffects == [lists |-> 0, prompts |-> 0, spawns |-> 0]
NotSpawned == <<>>

InitMain ==
  /\ enabled \in BOOLEAN
  /\ toggles = 0
  /\ statusNotes = <<>>
  /\ platform \in Platforms
  /\ \E shape \in ConfigShapes :
       /\ pythonExists \in (IF shape.type = "lldb" THEN BOOLEAN ELSE {FALSE})
       /\ config \in [type : {shape.type}, request : {"launch", "attach"},
                      parentId : BOOLEAN, env : BaseEnvs, fields : {shape.fields}]
  /\ pc = "idle"
  /\ ret = "none"
  /\ configPath = <<>>
  /\ verifiedConfig = "none"
  /\ quickPickSelection = <<>>
  /\ pickKind = "none"
  /\ spawned = NotSpawned
  /\ executionInfo = <<>>
  /\ failureNotes = <<>>
  /\ effects = NoEffects
  /\ operatorUsed = FALSE

\* A mutant of ReturnsUnchanged: the injected sentinel is not looked at.
ReturnsUnchangedNoSentinel(cfg, on) ==
  \/ (~on /\ ~EnvIs(cfg.env, MIRRORD_ACTIVE, "1")) \/ EnvIs(cfg.env, MIRRORD_ACTIVE, "0")
  \/ cfg.request = "attach"
  \/ cfg.parentId

\* A mutant of ReturnsUnchanged: MIRRORD_ACTIVE "0" does not switch mirrord off.
ReturnsUnchangedNoOptOut(cfg, on) ==
  \/ (~on /\ ~EnvIs(cfg.env, MIRRORD_ACTIVE, "1"))
  \/ cfg.request = "attach"
  \/ cfg.parentId \/ EnvIs(cfg.env, INJECTED, "true")

\* The conditions under which main returns the configuration untouched.
ReturnsUnchanged(cfg, on) ==
  \/ (~on /\ ~EnvIs(cfg.env, MIRRORD_ACTIVE, "1")) \/ EnvIs(cfg.env, MIRRORD_ACTIVE, "0")
  \/ cfg.request = "attach"
  \/ cfg.parentId \/ EnvIs(cfg.env, INJECTED, "true")

\* The host calls main(folder, config, token): the early returns, or on to
\* `await getMirrordBinary(false)`.
MainEnter ==
  /\ pc = "idle"
  /\ IF ReturnsUnchanged(config, enabled)
       THEN /\ ret' = "unchanged"
            /\ UNCHANGED <<pc, configPath, verifiedConfig, quickPickSelection, pickKind,
                           spawned, executionInfo>>
       ELSE /\ ret' = "none"
            /\ pc' = "binary"
            /\ configPath' = <<>>
            /\ verifiedConfig' = "none"
            /\ quickPickSelection' = <<>>
            /\ pickKind' = "none"
            /\ spawned' = NotSpawned
            /\ executionInfo' = <<>>
  /\ UNCHANGED <<enabled, toggles, statusNotes, platform, pythonExists, config, failureNotes, effects,
                 operatorUsed>>
  /\ UNCHANGED <<execVars, pickVars, cfgVars, viewVars>>

\* getMirrordBinary has answered: no binary fails the launch.
GetBinary(found) ==
  /\ pc = "binary"
  /\ IF ~found
       THEN /\ failureNotes' = Append(failureNotes,
                 mirrordFailure("Couldn't download mirrord binaries or find local one in path"))
            /\ ret' = "null"
            /\ pc' = "aborted"
       ELSE /\ pc' = "config"
            /\ UNCHANGED <<failureNotes, ret>>
  /\ UNCHANGED <<enabled, toggles, statusNotes, platform, pythonExists, config, configPath,
                 quickPickSelection, pickKind, spawned, executionInfo, effects,
                 operatorUsed>>
  /\ UNCHANGED verifiedConfig
  /\ UNCHANGED <<execVars, pickVars, cfgVars, viewVars>>

\* A mutant of TargetNotSpecified: verify-config's answer is not looked at.
TargetNotSpecifiedWithoutFile(path, verified) == path = <<>>

\* !configPath || (verifiedConfig && !isTargetSet(verifiedConfig))
TargetNotSpecified(path, verified) == path = <<>> \/ verified = "targetUnset"

\* A mutant of ResolveConfig: a configuration that verify-config fails is
\* taken as one that pins no target, and main goes on.
ResolveConfigFailGoesOn(path, verified) ==
  /\ pc = "config"
  /\ path = <<>> => verified = "none"
  /\ path # <<>> => verified # "none"
  /\ configPath' = path
  /\ verifiedConfig' = verified
  /\ IF FALSE
       \* isTargetSet throws; the provider catches, notifies, returns undefined.
       THEN /\ failureNotes' = Append(failureNotes,
                 [message |-> "mirrord extension error", actions |-> {}])
            /\ ret' = "undefined"
            /\ pc' = "aborted"
       ELSE /\ pc' = IF TargetNotSpecified(path, verified) \/ verified = "fail"
                      THEN "listing" ELSE "launch"
            /\ UNCHANGED <<failureNotes, ret>>
  /\ UNCHANGED <<enabled, toggles, statusNotes, platform, pythonExists, config, quickPickSelection,
                 pickKind, spawned, executionInfo, effects, operatorUsed>>
  /\ UNCHANGED <<execVars, pickVars, cfgVars, viewVars>>

\* resolveMirrordConfig and verifyConfig have answered.  path is the config
\* file (<<>>: none); verified is what verify-config says of it.
ResolveConfig(path, verified) ==
  /\ pc = "config"
  /\ path = <<>> => verified = "none"
  /\ path # <<>> => verified # "none"
  /\ configPath' = path
  /\ verifiedConfig' = verified
  /\ IF verified = "fail"
       \* isTargetSet throws; the provider catches, notifies, returns undefined.
       \* (The list of errors of the report, one notification each, is empty.)
       THEN /\ failureNotes' = Append(failureNotes,
                 [message |-> "mirrord extension error", actions |-> {}])
            /\ ret' = "undefined"
            /\ pc' = "aborted"
       ELSE /\ pc' = IF TargetNotSpecified(path, verified) THEN "listing" ELSE "launch"
            /\ UNCHANGED <<failureNotes, ret>>
  /\ UNCHANGED <<enabled, toggles, statusNotes, platform, pythonExists, config, quickPickSelection,
                 pickKind, spawned, executionInfo, effects, operatorUsed>>
  /\ UNCHANGED <<execVars, pickVars, cfgVars, viewVars>>

\* A mutant of ListTargets: a failed listing is reported and main goes on to
\* binaryExecute.
ListTargetsFailureGoesOn(ok) ==
  /\ pc = "listing"
  /\ config' = [config EXCEPT !.env = EnvSet(@, MIRRORD_LS_TARGET_TYPES_ENV, "types")]
  /\ effects' = [effects EXCEPT !.lists = @ + 1]
  /\ IF ~ok
       THEN /\ failureNotes' = Append(failureNotes,
                                      mirrordFailure("mirrord failed to list targets"))
            /\ pc' = "launch"
            /\ UNCHANGED ret
       ELSE /\ pc' = "picking"
            /\ UNCHANGED <<failureNotes, ret>>
  /\ UNCHANGED <<enabled, toggles, statusNotes, platform, pythonExists, configPath, quickPickSelection,
                 pickKind, spawned, executionInfo, operatorUsed>>
  /\ UNCHANGED verifiedConfig
  /\ UNCHANGED <<execVars, pickVars, cfgVars, viewVars>>

\* TargetQuickPick.new(getTargets) has answered: the first `mirrord ls`.
\* listTargets writes MIRRORD_LS_TARGET_TYPES into config.env before it runs.
ListTargets(ok) ==
  /\ pc = "listing"
  /\ config' = [config EXCEPT !.env = EnvSet(@, MIRRORD_LS_TARGET_TYPES_ENV, "types")]
  /\ effects' = [effects EXCEPT !.lists = @ + 1]
  /\ IF ~ok
       THEN /\ failureNotes' = Append(failureNotes,
                                      mirrordFailure("mirrord failed to list targets"))
            /\ ret' = "null"
            /\ pc' = "aborted"
       ELSE /\ pc' = "picking"
            /\ UNCHANGED <<failureNotes, ret>>
  /\ UNCHANGED <<enabled, toggles, statusNotes, platform, pythonExists, configPath, quickPickSelection,
                 pickKind, spawned, executionInfo, operatorUsed>>
  /\ UNCHANGED verifiedConfig
  /\ UNCHANGED <<execVars, pickVars, cfgVars, viewVars>>

\* quickPick.showAndGet() has returned: a target, the "no target" item, or
\* a dismissed picker.
ShowAndGet(kind, value, namespace) ==
  /\ pc = "picking"
  /\ kind = "target" => value \in PickTargets
  /\ kind # "target" => value = TARGETLESS
  /\ quickPickSelection' = <<IF kind = "dismissed" THEN DismissReturn(namespace)
                             ELSE TargetReturn(value, namespace)>>
  /\ pickKind' = kind
  /\ effects' = [effects EXCEPT !.prompts = @ + 1]
  /\ pc' = "launch"
  /\ UNCHANGED <<enabled, toggles, statusNotes, platform, pythonExists, config, ret, configPath, spawned,
                 executionInfo, failureNotes, operatorUsed>>
  /\ UNCHANGED verifiedConfig
  /\ UNCHANGED <<execVars, pickVars, cfgVars, viewVars>>

\* quickPick.showAndGet() has rejected: the user picked a namespace and the
\* `mirrord ls` of that namespace failed.
ShowAndGetFails ==
  /\ pc = "picking"
  /\ effects' = [effects EXCEPT !.prompts = @ + 1, !.lists = @ + 1]
  /\ failureNotes' = Append(failureNotes,
                            mirrordFailure("mirrord failed to list targets"))
  /\ ret' = "null"
  /\ pc' = "aborted"
  /\ UNCHANGED <<enabled, toggles, statusNotes, platform, pythonExists, config, configPath,
                 quickPickSelection, pickKind, spawned, executionInfo, operatorUsed>>
  /\ UNCHANGED verifiedConfig
  /\ UNCHANGED <<execVars, pickVars, cfgVars, viewVars>>

\* A mutant of DebuggerEnv: the sentinel is written before binaryExecute.
DebuggerEnvInjected(cfg) ==
  EnvSet(EnvSet(cfg.env, MIRRORD_IGNORE_DEBUGGER_PORTS, "45000-65535"), INJECTED, "true")

\* The env keys main writes by configuration type, then the debugger ports.
DebuggerEnv(cfg) ==
  LET typed ==
        CASE cfg.type = "go" -> EnvSet(cfg.env, MIRRORD_SKIP_PROCESSES, "dlv;...")
          [] cfg.type \in {"python", "debugpy"} ->
               EnvSet(cfg.env, MIRRORD_DETECT_DEBUGGER_PORT, "debugpy")
          [] cfg.type = "java" -> EnvSet(cfg.env, MIRRORD_DETECT_DEBUGGER_PORT, "javaagent")
          [] cfg.type = "pwa-node" ->
               EnvSet(cfg.env, MIRRORD_DETECT_DEBUGGER_PORT, "nodeinspector")
          [] OTHER -> cfg.env
  IN EnvSet(typed, MIRRORD_IGNORE_DEBUGGER_PORTS, "45000-65535")

\* main from the debugger env keys to the spawn of `mirrord ext` inside
\* binaryExecute.
Launch ==
  /\ pc = "launch"
  /\ LET cfg1 == [config EXCEPT !.env = DebuggerEnv(config)]
         cfg2 == IF platform = "win32"
                   THEN [cfg1 EXCEPT !.fields = patchConfigForWindows(cfg1)]
                   ELSE cfg1
         executable == IF platform = "darwin"
                         THEN getFieldAndExecutable(cfg2, pythonExists).executable
                         ELSE <<>>
     IN /\ config' = cfg2
        /\ spawned' = [args |-> makeMirrordArgs(
                                  IF quickPickSelection = <<>> THEN <<>>
                                  ELSE <<quickPickSelection[1].path>>,
                                  configPath, executable),
                       executable |-> executable,
                       configEnv |-> cfg2.env,
                       env |-> getEnv(binaryExecuteEnv(quickPickSelection, cfg2.env))]
  /\ effects' = [effects EXCEPT !.spawns = @ + 1]
  /\ pc' = "executing"
  /\ UNCHANGED <<enabled, toggles, statusNotes, platform, pythonExists, ret, configPath, quickPickSelection,
                 pickKind, executionInfo, failureNotes, operatorUsed>>
  /\ UNCHANGED verifiedConfig
  /\ UNCHANGED <<execVars, pickVars, cfgVars, viewVars>>

\* A mutant of PatchedEnv: the keys are removed before the merge.
PatchedEnvUnsetFirst(env, info) ==
  LET unset == IF info.envToUnset = <<>> THEN {} ELSE info.envToUnset[1]
      cleared == [x \in DOMAIN env \ unset |-> env[x]]
  IN EnvSet(ObjectAssign(cleared, info.env), INJECTED, "true")

\* config.env after the merge of the result, the removal of env_to_unset
\* and the sentinel.
PatchedEnv(env, info) ==
  LET merged == ObjectAssign(env, info.env)
      unset == IF info.envToUnset = <<>> THEN {} ELSE info.envToUnset[1]
      removed == [x \in DOMAIN merged \ unset |-> merged[x]]
  IN EnvSet(removed, INJECTED, "true")

\* binaryExecute has resolved with info: main patches config and returns it.
ExecuteResolves(info) ==
  /\ pc = "executing"
  /\ executionInfo' = <<info>>
  /\ operatorUsed' = (operatorUsed \/ info.usesOperator)
  /\ config' = [config EXCEPT
        !.fields = IF platform = "darwin"
                     THEN changeConfigForSip(config,
                            getFieldAndExecutable(config, pythonExists).field, info)
                     ELSE @,
        !.env = PatchedEnv(@, info)]
  /\ ret' = "patched"
  /\ pc' = "idle"
  /\ UNCHANGED <<enabled, toggles, statusNotes, platform, pythonExists, configPath, quickPickSelection,
                 pickKind, spawned, failureNotes, effects>>
  /\ UNCHANGED verifiedConfig
  /\ UNCHANGED <<execVars, pickVars, cfgVars, viewVars>>

\* binaryExecute has rejected: main notifies and returns null.  With the
\* stderr sentinel the close handler has shown its own notification first.
ExecuteRejects(reason) ==
  /\ pc = "executing"
  /\ failureNotes' = failureNotes
        \o (IF reason = "error"
              THEN <<[message |-> "mirrord error", actions |-> {}]>> ELSE <<>>)
        \o <<mirrordFailure("mirrord preparation failed")>>
  /\ ret' = "null"
  /\ pc' = "aborted"
  /\ UNCHANGED <<enabled, toggles, statusNotes, platform, pythonExists, config, configPath,
                 quickPickSelection, pickKind, spawned, executionInfo, effects,
                 operatorUsed>>
  /\ UNCHANGED verifiedConfig
  /\ UNCHANGED <<execVars, pickVars, cfgVars, viewVars>>

\* MirrordStatus.toggle(): the click on the status bar item.  On Windows it
\* shows an error and leaves the switch alone.
Toggle ==
  /\ toggles < MaxToggles
  /\ toggles' = toggles + 1
  /\ IF platform = "win32"
       THEN /\ statusNotes' = Append(statusNotes,
                 [message |-> "mirrord is not supported on Windows", actions |-> {}])
            /\ UNCHANGED enabled
       ELSE /\ enabled' = ~enabled
            /\ UNCHANGED statusNotes
  /\ UNCHANGED <<platform, pythonExists, config, pc, ret, configPath,
                 quickPickSelection, pickKind, spawned, executionInfo, failureNotes,
                 effects, operatorUsed>>
  /\ UNCHANGED verifiedConfig
  /\ UNCHANGED <<execVars, pickVars, cfgVars, viewVars>>

NextMain ==
  \/ MainEnter
  \/ Toggle
  \/ \E found \in BOOLEAN : GetBinary(found)
  \/ \E path \in {<<>>, <<"cfg">>}, verified \in {"none", "targetSet", "targetUnset", "fail"} :
        ResolveConfig(path, verified)
  \/ \E ok \in BOOLEAN : ListTargets(ok)
  \/ \E kind \in {"target", "targetless", "dismissed"},
        value \in PickTargets \cup {TARGETLESS}, namespace \in PickNamespaces :
        ShowAndGet(kind, value, namespace)
  \/ ShowAndGetFails
  \/ Launch
  \/ \E info \in Executions : ExecuteResolves(info)
  \/ \E reason \in RejectReasons : ExecuteRejects(reason)

InitSpecMain ==
  /\ InitMain
  /\ InitExec
  /\ PickIdle
  /\ ConfigIdle
  /\ ViewIdle

SpecMain == InitSpecMain /\ [][NextMain]_vars

\* The steps of a launch attempt that the user and the timer of
\* binaryExecute bring about: getMirrordBinary answers, the user answers the
\* picker, main runs on to the spawn, and binaryExecute settles (by its
\* timer at the latest).  `mirrord ls` runs in exec, which sets no timer:
\* nothing makes ListTargets happen.  `mirrord verify-config` runs in exec
\* too, and only when there is a configuration file; it is taken to exit
\* here, so that no behaviour waits for it.
FairSpecMain ==
  /\ SpecMain
  /\ WF_vars(\E found \in BOOLEAN : GetBinary(found))
  /\ WF_vars(\E path \in {<<>>, <<"cfg">>},
                verified \in {"none", "targetSet", "targetUnset", "fail"} :
                ResolveConfig(path, verified))
  /\ WF_vars(\E kind \in {"target", "targetless", "dismissed"},
                value \in PickTargets \cup {TARGETLESS}, namespace \in PickNamespaces :
                ShowAndGet(kind, value, namespace))
  /\ WF_vars(Launch)
  /\ WF_vars(\/ \E info \in Executions : ExecuteResolves(info)
             \/ \E reason \in RejectReasons : ExecuteRejects(reason))

(***************************************************************************)
(* Properties of main.                                                     *)
(***************************************************************************)
\* The index of flag f in the arguments, 0 when it is not there.
FlagAt(args, f) ==
  IF \E i \in 1..Len(args) : args[i] = f
    THEN CHOOSE i \in 1..Len(args) : args[i] = f
    ELSE 0

\* The arguments are 'ext', then the flags present, each followed by its
\* value, in the order -t, -f, -e; t, f and e are the values (<<>>: absent).
ArgsAre(args, t, f, e) ==
  /\ args[1] = "ext"
  /\ Len(args) = 1 + 2 * Cardinality({x \in {"-t", "-f", "-e"} : FlagAt(args, x) # 0})
  /\ (FlagAt(args, "-t") # 0) <=> (t # <<>>)
  /\ t # <<>> => (FlagAt(args, "-t") = 2 /\ args[3] = t[1])
  /\ (FlagAt(args, "-f") # 0) <=> (f # <<>>)
  /\ f # <<>> => (/\ FlagAt(args, "-f") > FlagAt(args, "-t")
                  /\ args[FlagAt(args, "-f") + 1] = f[1])
  /\ (FlagAt(args, "-e") # 0) <=> (e # <<>>)
  /\ e # <<>> => (/\ FlagAt(args, "-e") > FlagAt(args, "-t")
                  /\ FlagAt(args, "-e") > FlagAt(args, "-f")
                  /\ FlagAt(args, "-e") = Len(args) - 1
                  /\ args[Len(args)] = e[1])

\* C7 as stated: '-t <target>' is passed if and only if a concrete target
\* was picked; not for the 'no target' item, a dismissed picker or no picker.
C7_TargetFlagOnlyForConcreteTarget ==
  spawned # NotSpawned =>
    ArgsAre(spawned.args,
            IF pickKind = "target" THEN <<quickPickSelection[1].path>> ELSE <<>>,
            configPath, spawned.executable)

\* C7 amended: '-t <path>' is passed if and only if the picker was shown,
\* with the path it returned: the target picked, or 'targetless' for the
\* 'no target' item and for a dismissed picker; then -f, then -e.
C7_TargetFlagForEveryPick ==
  spawned # NotSpawned =>
    /\ ArgsAre(spawned.args,
               IF quickPickSelection # <<>> THEN <<quickPickSelection[1].path>> ELSE <<>>,
               configPath, spawned.executable)
    /\ pickKind \in {"targetless", "dismissed"} => quickPickSelection[1].path = TARGETLESS
    /\ (/\ pickKind = "target" /\ quickPickSelection[1].path = "pod/api-1"
        /\ configPath = <<>> /\ spawned.executable = <<>>)
          => spawned.args = <<"ext", "-t", "pod/api-1">>

\* C7 witness: the 'no target' item was picked with a config file present.
C7_Witness ==
  /\ spawned # NotSpawned
  /\ pickKind = "targetless"
  /\ spawned.args = <<"ext", "-t", "targetless", "-f", "cfg">>

\* The env keys main writes itself after the config file is resolved and
\* before it calls binaryExecute.
CallerOverlayKeys ==
  {MIRRORD_SKIP_PROCESSES, MIRRORD_DETECT_DEBUGGER_PORT, MIRRORD_IGNORE_DEBUGGER_PORTS}

\* The env keys of the model.
AllEnvKeys ==
  UNION {DOMAIN e : e \in ResultEnvs} \cup UNION {DOMAIN e : e \in BaseEnvs}
    \cup CallerOverlayKeys \cup {MIRRORD_LS_TARGET_TYPES_ENV}

\* The keys of env_to_unset.
Unset(info) == IF info.envToUnset = <<>> THEN {} ELSE info.envToUnset[1]

\* C8 as stated: in the patched env a key written by the caller keeps the
\* caller's value even when the result carries the key.
C8_CallerOverlayWins ==
  ret = "patched" =>
    \A k \in CallerOverlayKeys \cap DOMAIN spawned.configEnv :
       k \notin Unset(executionInfo[1]) =>
          (k \in DOMAIN config.env /\ config.env[k] = spawned.configEnv[k])

\* C8 amended: the patched env is the env main passed to binaryExecute
\* (the launch env with the keys main wrote) overlaid by the result
\* environment: a result key overrides every earlier value, the keys main
\* wrote included, and nothing is applied after the result but the removal
\* of env_to_unset and the sentinel.
C8_ResultOverridesBase ==
  ret = "patched" =>
    \A k \in AllEnvKeys \ ({INJECTED} \cup Unset(executionInfo[1])) :
       /\ k \in DOMAIN executionInfo[1].env =>
            (k \in DOMAIN config.env /\ config.env[k] = executionInfo[1].env[k])
       /\ (k \notin DOMAIN executionInfo[1].env /\ k \in DOMAIN spawned.configEnv) =>
            (k \in DOMAIN config.env /\ config.env[k] = spawned.configEnv[k])
       /\ (k \notin DOMAIN executionInfo[1].env /\ k \notin DOMAIN spawned.configEnv) =>
            k \notin DOMAIN config.env

\* C8 witness: the launch env had A=1, the result carries A and the
\* debugger-ports key main wrote, and the patched env has the result's values.
C8_Witness ==
  /\ ret = "patched"
  /\ EnvIs(spawned.configEnv, "A", "1")
  /\ EnvIs(spawned.configEnv, MIRRORD_IGNORE_DEBUGGER_PORTS, "45000-65535")
  /\ EnvIs(executionInfo[1].env, "A", "2")
  /\ EnvIs(executionInfo[1].env, MIRRORD_IGNORE_DEBUGGER_PORTS, "2")
  /\ EnvIs(config.env, "A", "2") /\ EnvIs(config.env, "B", "2")
  /\ EnvIs(config.env, MIRRORD_IGNORE_DEBUGGER_PORTS, "2")

\* C9: after a successful patch no key of env_to_unset is in config.env.
C9_UnsetAfterMerge ==
  ret = "patched" => \A k \in Unset(executionInfo[1]) : k \notin DOMAIN config.env

\* C9 witness: a patch whose env_to_unset names a key that was in the
\* launch env and is in the result environment too.
C9_Witness ==
  /\ ret = "patched"
  /\ "A" \in Unset(executionInfo[1])
  /\ "A" \in DOMAIN executionInfo[1].env
  /\ "A" \in DOMAIN spawned.configEnv

\* C10: a patched configuration carries the sentinel, and a call of main on
\* a configuration with the sentinel or with __parentId returns it
\* unchanged, with no listing, prompt, spawn or notification.  (The other
\* step of an idle main, a click on the status bar item, is set aside.)
C10_ResolveIdempotent ==
  /\ [](ret = "patched" => EnvIs(config.env, INJECTED, "true"))
  /\ [][ (pc = "idle" /\ toggles' = toggles
           /\ (config.parentId \/ EnvIs(config.env, INJECTED, "true"))) =>
           /\ config' = config
           /\ effects' = effects
           /\ failureNotes' = failureNotes
           /\ pc' = "idle"
           /\ ret' = "unchanged" ]_vars

\* C10 witness: main has patched the configuration, was called again on
\* it, and returned it unchanged.
C10_Witness ==
  /\ ret = "unchanged"
  /\ executionInfo # <<>>
  /\ EnvIs(config.env, INJECTED, "true")

\* The step is main going from the debugger env keys to the spawn.
Launching == pc = "launch" /\ pc' = "executing"

\* The step is main patching the configuration with the result.
Patching == pc = "executing" /\ pc' = "idle"

\* The fields of the configuration but f are as they were.
OtherFieldsKept(f) ==
  /\ DOMAIN config'.fields = DOMAIN config.fields \cup {f}
  /\ \A x \in DOMAIN config.fields \ {f} : config'.fields[x] = config.fields[x]

\* C17 as stated: the fields change only on macOS with a patched path, then
\* the executable field of a type other than node-terminal is the patched
\* path; without a patched path no field changes.
C17_FieldChangedOnlyWithPatchedPath ==
  [][ /\ config'.fields # config.fields =>
           /\ platform = "darwin"
           /\ Patching
           /\ executionInfo'[1].patchedPath # <<>>
           /\ config.type # "node-terminal" =>
                config'.fields[getFieldAndExecutable(config, pythonExists).field]
                  = executionInfo'[1].patchedPath
      /\ (Patching /\ executionInfo'[1].patchedPath = <<>>) =>
           config'.fields = config.fields ]_vars

\* C17: on Windows the spawn step replaces the field getPatchInfo names by
\* the wrapper script; on macOS the patch step rewrites the node-terminal
\* command, patched path or not, around the patched path or else the shell,
\* and sets the executable field of any other type to the patched path when
\* there is one; no other step and no other platform changes a field.
C17_FieldPatchedPerPlatform ==
  [][ /\ (Launching /\ platform = "win32" /\ getPatchInfo(config) # <<>>) =>
           /\ config'.fields[getPatchInfo(config)[1]] = <<"script">>
           /\ OtherFieldsKept(getPatchInfo(config)[1])
      /\ (Launching /\ ~(platform = "win32" /\ getPatchInfo(config) # <<>>)) =>
           config'.fields = config.fields
      /\ (Patching /\ platform = "darwin" /\ config.type = "node-terminal") =>
           /\ config'.fields["command"][1] = "echo"
           /\ config'.fields["command"][2] = config.fields["command"]
           /\ config'.fields["command"][4] =
                (IF executionInfo'[1].patchedPath # <<>>
                   THEN executionInfo'[1].patchedPath ELSE Shell)
           /\ OtherFieldsKept("command")
      /\ (Patching /\ platform = "darwin" /\ config.type # "node-terminal"
            /\ executionInfo'[1].patchedPath # <<>>) =>
           /\ config'.fields[getFieldAndExecutable(config, pythonExists).field]
                = executionInfo'[1].patchedPath
           /\ OtherFieldsKept(getFieldAndExecutable(config, pythonExists).field)
      /\ (Patching /\ platform = "darwin" /\ config.type # "node-terminal"
            /\ executionInfo'[1].patchedPath = <<>>) =>
           config'.fields = config.fields
      /\ (Patching /\ platform # "darwin") => config'.fields = config.fields
      /\ (~Launching /\ ~Patching) => config'.fields = config.fields ]_vars

\* C17: on macOS a node-terminal command has been rewritten around the shell
\* though the result carried no patched path.
C17_Witness ==
  /\ ret = "patched"
  /\ platform = "darwin"
  /\ config.type = "node-terminal"
  /\ executionInfo[1].patchedPath = <<>>
  /\ config.fields["command"] # <<"orig">>
  /\ config.fields["command"][4] = Shell

\* The field the table of C31 gives for a configuration; pythonOnDisk tells
\* whether an unknown type with a python field whose path exists gives python.
TableField(pythonOnDisk) ==
  IF config.type \in {"node", "pwa-node"} THEN "runtimeExecutable"
  ELSE IF config.type = "node-terminal" THEN "command"
  ELSE IF config.type \in {"python", "debugpy"}
    THEN (IF "python" \in DOMAIN config.fields THEN "python" ELSE "pythonPath")
  ELSE IF pythonOnDisk /\ "python" \in DOMAIN config.fields /\ pythonExists
    THEN "python"
  ELSE "program"

\* On macOS the executable handed to `mirrord ext` is the shell for
\* node-terminal and else the value of the table's field, and the patched
\* path, when there is one, is written to the table's field.
FieldFromTable(pythonOnDisk) ==
      /\ (Launching /\ platform = "darwin") =>
           spawned'.executable =
             (IF config.type = "node-terminal" THEN Shell
              ELSE Field(config, TableField(pythonOnDisk)))
      /\ (Patching /\ platform = "darwin" /\ config.type # "node-terminal"
            /\ executionInfo'[1].patchedPath # <<>>) =>
           /\ config'.fields[TableField(pythonOnDisk)] = executionInfo'[1].patchedPath
           /\ OtherFieldsKept(TableField(pythonOnDisk))

\* C31 as stated: the executable field comes from a table keyed by the
\* type: runtimeExecutable for node and pwa-node, command (with the shell as
\* executable) for node-terminal, python else pythonPath for python and
\* debugpy, program for every other type.
C31_FieldFromTypeTable == [][FieldFromTable(FALSE)]_vars

\* C31: as stated, but a type the table does not know gives python when the
\* configuration has a python field whose path exists on disk, and program
\* otherwise.
C31_FieldFromTypeTableOrPython == [][FieldFromTable(TRUE)]_vars

\* C31 witness: on macOS an lldb configuration with an existing python path
\* and a program: python was handed to the tool and python was patched.
C31_Witness ==
  /\ platform = "darwin"
  /\ config.type = "lldb"
  /\ pythonExists
  /\ ret = "patched"
  /\ spawned.executable = <<"orig">>
  /\ executionInfo[1].patchedPath = <<"patched">>
  /\ config.fields["python"] = <<"patched">>
  /\ config.fields["program"] = <<"orig">>

\* C18: a launch attempt that failed has shown one failure notification, and
\* it offers at least three support actions.
C18_OneFailureNotification ==
  (pc = "aborted" /\ ret = "null") =>
    /\ Len(failureNotes) = 1
    /\ Cardinality(failureNotes[1].actions) >= 3

\* The launch env and the switch exclude the configuration from mirrord.
SwitchedOff ==
  \/ (~enabled /\ ~EnvIs(config.env, MIRRORD_ACTIVE, "1"))
  \/ EnvIs(config.env, MIRRORD_ACTIVE, "0")
  \/ config.request = "attach"

\* A call of main on a switched-off configuration returns it unchanged with
\* no listing, prompt or spawn, and main goes on only when not switched off.
MainOnlyWhenSwitchedOn ==
  [][ /\ (pc = "idle" /\ toggles' = toggles /\ SwitchedOff) =>
           /\ config' = config
           /\ effects' = effects
           /\ pc' = "idle"
           /\ ret' = "unchanged"
      /\ (pc = "idle" /\ pc' # "idle") => ~SwitchedOff ]_vars

Phase ==
  IF pc = "aborted" \/ executionInfo # <<>> THEN 4
  ELSE IF pc = "executing" THEN 3
  ELSE IF pc = "launch" THEN 2
  ELSE IF pc \in {"listing", "picking"} THEN 1
  ELSE 0

\* The launch attempt has succeeded.
Succeeded == executionInfo # <<>>

\* The result has been applied to the configuration.
ResultApplied == EnvIs(config.env, INJECTED, "true") /\ ret = "patched"

\* C24: the phases of a launch attempt follow one another in the order
\* Idle, Selecting, Spawning, Streaming, Succeeded or Failed, Selecting being
\* optional: `mirrord ext` is spawned at most once and only when the
\* selection is over, streaming starts only from the spawn, success comes only
\* from streaming, the result is applied to the configuration only with
\* success, and after success or failure there is no listing, prompt or spawn.
C24_PhaseOrder ==
  /\ [](effects.spawns <= 1)
  /\ [](ResultApplied => Succeeded)
  /\ [][ /\ Phase' >= Phase
         /\ (Phase' = 1 /\ Phase # 1) => Phase = 0
         /\ (Phase' = 2 /\ Phase # 2) => Phase \in {0, 1}
         /\ (Phase' = 3 /\ Phase # 3) => Phase = 2
         /\ (Succeeded' /\ ~Succeeded) => Phase = 3
         /\ effects'.spawns > effects.spawns => (Phase = 2 /\ Phase' = 3)
         /\ Phase >= 2 => (/\ effects'.lists = effects.lists
                           /\ effects'.prompts = effects.prompts)
         /\ Phase = 4 => effects' = effects ]_vars

\* C24 witness: after a listing, a prompt and one spawn the attempt has
\* succeeded, and the host has called main again, which did nothing.
C24_Witness ==
  /\ Succeeded
  /\ effects = [lists |-> 1, prompts |-> 1, spawns |-> 1]
  /\ pc = "idle"
  /\ ret = "unchanged"

\* The executable fields are those the launch configuration came with.
FieldsAsGiven ==
  \E shape \in ConfigShapes : shape.type = config.type /\ config.fields = shape.fields

\* The executable fields are those the launch configuration came with, but
\* the field the Windows table names, which holds the wrapper script.
FieldsWithWindowsScript ==
  \E shape \in ConfigShapes :
    /\ shape.type = config.type
    /\ LET patch == getPatchInfo([config EXCEPT !.fields = shape.fields])
       IN IF patch = <<>> THEN config.fields = shape.fields
          ELSE /\ DOMAIN config.fields = DOMAIN shape.fields \cup {patch[1]}
               /\ config.fields[patch[1]] = <<"script">>
               /\ \A f \in DOMAIN shape.fields \ {patch[1]} :
                    config.fields[f] = shape.fields[f]

\* After a failed launch attempt: no value of the result is in the env, no
\* key that was passed to binaryExecute is missing, the sentinel is not set.
EnvNotPatched ==
  /\ \A k \in DOMAIN config.env : config.env[k] # "2"
  /\ spawned # NotSpawned => DOMAIN spawned.configEnv \subseteq DOMAIN config.env
  /\ ~EnvIs(config.env, INJECTED, "true")

\* C26 as stated: when a launch attempt has failed (no binary, the listing
\* failed, binaryExecute failed), no patch step has been applied to the
\* launch configuration: no result environment merged, no key removed, no
\* executable field substituted, no sentinel set.
C26_NothingPatchedOnFailure ==
  (pc = "aborted" /\ ret = "null") => (EnvNotPatched /\ FieldsAsGiven)

\* C26: when a launch attempt has failed, no result environment is merged,
\* no key is removed and no sentinel is set; the executable field is as
\* given, except on Windows once binaryExecute has been called: there the
\* field already holds the wrapper script.
C26_OnlyWindowsScriptOnFailure ==
  (pc = "aborted" /\ ret = "null") =>
    /\ EnvNotPatched
    /\ IF platform = "win32" /\ spawned # NotSpawned
         THEN FieldsWithWindowsScript ELSE FieldsAsGiven

\* C26 witness: on Windows binaryExecute has failed and runtimeExecutable
\* holds the wrapper script.
C26_Witness ==
  /\ pc = "aborted" /\ ret = "null"
  /\ platform = "win32"
  /\ spawned # NotSpawned
  /\ config.type = "node"
  /\ config.fields["runtimeExecutable"] = <<"script">>

\* The config sets no target: there is no config file, or verify-config
\* says that the file sets none.
NoTargetPinned == configPath = <<>> \/ verifiedConfig = "targetUnset"

\* C30: the listing and the selection loop run if and only if there is no
\* config file or verify-config reports that the config sets no target; with
\* a target pinned by the config there is no listing and no prompt, and
\* `mirrord ext` is spawned without '-t'.
C30_SelectionIffNoTargetPinned ==
  [][ /\ (pc = "config" /\ pc' \notin {"config", "aborted"}) =>
           (pc' = "listing" <=> NoTargetPinned')
      /\ (effects'.lists > effects.lists \/ effects'.prompts > effects.prompts) =>
           NoTargetPinned
      /\ Launching =>
           /\ NoTargetPinned <=> (effects.lists = 1 /\ effects.prompts = 1)
           /\ ~NoTargetPinned => (/\ effects.lists = 0 /\ effects.prompts = 0
                                  /\ FlagAt(spawned'.args, "-t") = 0) ]_vars

\* C30 witness: the config file pins a target, and `mirrord ext` has been
\* spawned with the file and without listing or prompt.
C30_Witness ==
  /\ verifiedConfig = "targetSet"
  /\ spawned # NotSpawned
  /\ spawned.args = <<"ext", "-f", "cfg">>
  /\ effects = [lists |-> 0, prompts |-> 0, spawns |-> 1]

\* The list-failure notification has been shown.
ListFailed ==
  \E i \in 1..Len(failureNotes) :
    failureNotes[i] = mirrordFailure("mirrord failed to list targets")

\* The keys a launch env can hold when main is called.
OriginalKeys == UNION {DOMAIN e : e \in BaseEnvs}

\* The keys of the debugger hints main writes.
DebuggerHintKeys ==
  {MIRRORD_SKIP_PROCESSES, MIRRORD_DETECT_DEBUGGER_PORT, MIRRORD_IGNORE_DEBUGGER_PORTS}

\* C38: listing the targets leaves config.env alone: after a successful
\* launch that listed targets, every key of config.env is a key of the
\* original env, a debugger hint, a key of the result environment or the
\* sentinel.
C38_ListingLeavesEnvAlone ==
  (ret = "patched" /\ effects.lists > 0) =>
     DOMAIN config.env \subseteq
        OriginalKeys \cup DebuggerHintKeys \cup DOMAIN executionInfo[1].env
          \cup {INJECTED}

\* verify-config has reported the configuration as 'Fail'.
VerifyFailed == verifiedConfig = "fail"

Attempting == pc \notin {"idle", "aborted"}

\* C34: every launch attempt eventually succeeds or fails, when the user
\* answers every prompt and the timer fires, whether the external tool
\* exits or not.
C34_AttemptEnds ==
  Attempting ~> (pc = "aborted" \/ (pc = "idle" /\ Succeeded))

\* C32: a failed listing, the first one or one after a namespace pick, aborts
\* the launch attempt with the list-failure notification: main returns null
\* and `mirrord ext` is not spawned, then or later.
C32_ListFailureAborts ==
  /\ [](ListFailed => (/\ pc = "aborted" /\ ret = "null"
                       /\ spawned = NotSpawned /\ effects.spawns = 0))
  /\ [][(pc \in {"listing", "picking"} /\ pc' = "aborted") =>
          (~ListFailed /\ ListFailed')]_vars

\* C32 witness: the listing after a namespace pick failed, with a config
\* file that sets no target.
C32_Witness ==
  /\ ListFailed
  /\ effects = [lists |-> 2, prompts |-> 1, spawns |-> 0]
  /\ configPath = <<"cfg">>
  /\ pc = "aborted"

(***************************************************************************)
(* TargetQuickPick (src/src/targetQuickPick.ts).  A target path is the     *)
(* sequence of its segments between '/': "pod/api-1" is <<"pod", "api-1">>.*)
(***************************************************************************)
\* TARGET_SELECTION_PAGES: the target types of the pages, in their order.
TARGET_SELECTION_PAGES == <<"deployment", "rollout", "pod">>

\* NAMESPACE_SELECTION_PAGE: the one page without a targetType.
NAMESPACE_SELECTION_PAGE == "namespace"

\* TARGETLESS_ITEM
TARGETLESS_ITEM == [type |-> "target", value |-> <<TARGETLESS>>]

\* path.split('/')[0]
TargetTypeOf(path) == path[1]

\* path.startsWith(`${targetType}/`)
StartsWithType(path, targetType) == Len(path) > 1 /\ path[1] = targetType

\* TARGET_SELECTION_PAGES.find(p => p.targetType === targetType), <<>>: undefined.
FindPage(targetType) ==
  IF \E i \in 1..Len(TARGET_SELECTION_PAGES) : TARGET_SELECTION_PAGES[i] = targetType
    THEN <<targetType>> ELSE <<>>

\* The targets `mirrord ls` can report.
RawTargets ==
  { [path |-> <<"pod", "a">>, available |-> TRUE],
    [path |-> <<"pod", "b">>, available |-> TRUE],
    [path |-> <<"deployment", "d">>, available |-> TRUE],
    [path |-> <<"deployment", "u">>, available |-> FALSE],
    [path |-> <<"rollout", "r">>, available |-> TRUE],
    [path |-> <<"job", "j">>, available |-> TRUE] }

\* The namespaces of the cluster.
Namespaces == <<"ns1", "ns2">>

\* The lists of at most MaxTargets targets drawn from a set.
Catalogs(from) == UNION { [1..n -> from] : n \in 0..MaxTargets }

\* What listTargets returns for a CLI with rich output: targets, the current
\* namespace (the one asked for, <<>>: none asked) and the namespaces.
RichLsOutputs(namespace) ==
  [targets : Catalogs(RawTargets),
   current_namespace : {IF namespace = <<>> THEN <<Namespaces[1]>> ELSE namespace},
   namespaces : {<<Namespaces>>}]

\* What listTargets returns for an old CLI: paths only, all taken as
\* available, no namespaces.
PlainLsOutputs ==
  [targets : Catalogs({t \in RawTargets : t.available}),
   current_namespace : {<<>>},
   namespaces : {<<>>}]

\* A mutant of getFilteredTargets: nothing is dropped.
getUnfilteredTargets(output) == output

\* getFilteredTargets of TargetQuickPick.new: available targets of a type
\* that has a page.
getFilteredTargets(output) ==
  [output EXCEPT !.targets =
     SelectSeq(@, LAMBDA t : t.available /\ FindPage(TargetTypeOf(t.path)) # <<>>)]

\* hasTargetOfType(targetType)
hasTargetOfType(ls, targetType) ==
  \E i \in 1..Len(ls.targets) : StartsWithType(ls.targets[i].path, targetType)

\* A mutant of getDefaultPage: the last target is not looked at.
getDefaultPageIgnoringLast(ls, last) ==
  LET pages == [i \in 1..Len(ls.targets) |-> FindPage(TargetTypeOf(ls.targets[i].path))]
      found == SelectSeq(pages, LAMBDA p : p # <<>>)
  IN IF found # <<>> THEN found[1] ELSE <<>>

\* getDefaultPage(): the page of the last target's type if there is a target
\* of that type, else the page of the first listed target that has a page.
getDefaultPage(ls, last) ==
  LET lastTargetType == IF last = <<>> THEN <<>> ELSE <<TargetTypeOf(last[1])>>
      preferred == IF lastTargetType # <<>> /\ hasTargetOfType(ls, lastTargetType[1])
                     THEN FindPage(lastTargetType[1]) ELSE <<>>
      pages == [i \in 1..Len(ls.targets) |-> FindPage(TargetTypeOf(ls.targets[i].path))]
      found == SelectSeq(pages, LAMBDA p : p # <<>>)
  IN IF preferred # <<>> THEN preferred
     ELSE IF found # <<>> THEN found[1] ELSE <<>>

\* A mutant of NamespacePageItem: the item is offered always.
NamespacePageItemAlways(ls) == <<[type |-> "page", value |-> NAMESPACE_SELECTION_PAGE]>>

\* The item that opens the namespace page, when namespaces are listed.
NamespacePageItem(ls) ==
  IF ls.namespaces # <<>>
    THEN <<[type |-> "page", value |-> NAMESPACE_SELECTION_PAGE]>> ELSE <<>>

\* A mutant of PageItems: only the first of the other pages is offered.
PageItemsFirstOnly(ls, page) ==
  LET shown == SelectSeq(TARGET_SELECTION_PAGES,
                         LAMBDA t : <<t>> # page /\ hasTargetOfType(ls, t))
  IN IF shown = <<>> THEN <<>> ELSE <<[type |-> "page", value |-> shown[1]]>>

\* The items that open the pages of the types with a target, but the active one.
PageItems(ls, page) ==
  LET shown == SelectSeq(TARGET_SELECTION_PAGES,
                         LAMBDA t : <<t>> # page /\ hasTargetOfType(ls, t))
  IN [i \in 1..Len(shown) |-> [type |-> "page", value |-> shown[i]]]

\* A mutant of NamespaceItems: the current namespace is offered too.
NamespaceItemsAll(ls) ==
  IF ls.namespaces = <<>> THEN <<>>
  ELSE [i \in 1..Len(ls.namespaces[1]) |->
          [type |-> "namespace", value |-> ls.namespaces[1][i]]]

\* The items of the other namespaces.
NamespaceItems(ls) ==
  IF ls.namespaces = <<>> THEN <<>>
  ELSE LET others == SelectSeq(ls.namespaces[1],
                               LAMBDA ns : <<ns>> # ls.current_namespace)
       IN [i \in 1..Len(others) |-> [type |-> "namespace", value |-> others[i]]]

\* A mutant of TargetItems: the last target is not moved.
TargetItemsCatalogOrder(ls, targetType, last) ==
  LET onPage == SelectSeq(ls.targets, LAMBDA t : StartsWithType(t.path, targetType))
  IN [i \in 1..Len(onPage) |-> [type |-> "target", value |-> onPage[i].path]]

\* The items of the targets of a page, the last target first if it is there.
TargetItems(ls, targetType, last) ==
  LET onPage == SelectSeq(ls.targets, LAMBDA t : StartsWithType(t.path, targetType))
      listed == [i \in 1..Len(onPage) |-> [type |-> "target", value |-> onPage[i].path]]
      at == {i \in 1..Len(listed) : last # <<>> /\ listed[i].value = last[1]}
      idx == IF at = {} THEN 0 ELSE CHOOSE i \in at : \A j \in at : i <= j
  IN IF idx = 0 THEN listed
     ELSE <<listed[idx]>> \o SubSeq(listed, 1, idx - 1) \o SubSeq(listed, idx + 1, Len(listed))

\* A mutant of NoPageItems: the namespace page is offered always.
NoPageItemsWithNamespaces(ls) ==
  <<TARGETLESS_ITEM, [type |-> "page", value |-> NAMESPACE_SELECTION_PAGE]>>

\* The items of prepareQuickPick when there is no page to show.
NoPageItems(ls) == <<TARGETLESS_ITEM>> \o NamespacePageItem(ls)

\* prepareQuickPick(): the active page and the items.
prepareQuickPick(ls, page, last) ==
  LET shown == IF page = <<>> THEN getDefaultPage(ls, last) ELSE page
  IN [activePage |-> shown,
      items |->
        IF shown = <<>> THEN NoPageItems(ls)
        ELSE IF shown[1] = NAMESPACE_SELECTION_PAGE
          THEN NamespaceItems(ls) \o PageItems(ls, shown)
        ELSE TargetItems(ls, shown[1], last) \o <<TARGETLESS_ITEM>>
               \o PageItems(ls, shown) \o NamespacePageItem(ls)]

\* a || b
OrElse(a, b) == IF a # <<>> THEN a ELSE b

\* A mutant of Show: the setting is not looked at.
ShowAlways(notes, note, setting) == Append(notes, note)

\* NotificationBuilder.show() of a notification with a disable action: it is
\* shown unless its setting is false.
Show(notes, note, setting) == IF setting = FALSE THEN notes ELSE Append(notes, note)

\* The values of LAST_TARGET_KEY a window starts with, in the workspace
\* state and in the global state.
WorkspaceTargets == {<<>>, <<<<"pod", "b">>>>}
GlobalTargets == {<<>>, <<<<"deployment", "d">>>>}

InitPick ==
  /\ workspaceState \in WorkspaceTargets
  /\ globalState \in GlobalTargets
  /\ promptTargetless \in BOOLEAN
  /\ rawOutput = <<>>
  /\ lsOutput = <<>>
  /\ activePage = <<>>
  /\ lastTarget = <<>>
  /\ items = <<>>
  /\ pickPc = "new"
  /\ fetchNs = <<>>
  /\ userSelection = <<>>
  /\ notices = <<>>
  /\ lastEvent = "none"

\* TargetQuickPick.new(getTargets) then showAndGet() up to the first prompt.
New(output) ==
  /\ pickPc = "new"
  /\ rawOutput' = output
  /\ lsOutput' = getFilteredTargets(output)
  /\ lastTarget' = OrElse(workspaceState, globalState)
  /\ activePage' = prepareQuickPick(lsOutput', <<>>, lastTarget').activePage
  /\ items' = prepareQuickPick(lsOutput', <<>>, lastTarget').items
  /\ pickPc' = "prompt"
  /\ lastEvent' = "new"
  /\ UNCHANGED <<workspaceState, globalState, promptTargetless, fetchNs,
                 userSelection, notices>>
  /\ UNCHANGED <<execVars, mainVars, cfgVars, viewVars>>

\* The first `mirrord ls` fails: TargetQuickPick.new rejects.
NewFails ==
  /\ pickPc = "new"
  /\ pickPc' = "raised"
  /\ lastEvent' = "raised"
  /\ UNCHANGED <<workspaceState, globalState, promptTargetless, rawOutput, lsOutput,
                 activePage, lastTarget, items, fetchNs, userSelection, notices>>
  /\ UNCHANGED <<execVars, mainVars, cfgVars, viewVars>>

\* The user picks an item of type 'target': a target or TARGETLESS_ITEM.
SelectTarget(i) ==
  /\ pickPc = "prompt"
  /\ i \in 1..Len(items)
  /\ items[i].type = "target"
  /\ globalState' = <<items[i].value>>
  /\ workspaceState' = <<items[i].value>>
  /\ userSelection' = <<[path |-> items[i].value,
                         namespace |-> lsOutput.current_namespace]>>
  /\ pickPc' = "done"
  /\ lastEvent' = IF items[i] = TARGETLESS_ITEM THEN "targetless" ELSE "target"
  /\ UNCHANGED <<promptTargetless, rawOutput, lsOutput, activePage, lastTarget, items,
                 fetchNs, notices>>
  /\ UNCHANGED <<execVars, mainVars, cfgVars, viewVars>>

\* The user picks a namespace: `mirrord ls` is run in it.
SelectNamespace(i) ==
  /\ pickPc = "prompt"
  /\ i \in 1..Len(items)
  /\ items[i].type = "namespace"
  /\ fetchNs' = <<items[i].value>>
  /\ pickPc' = "fetching"
  /\ lastEvent' = "namespace"
  /\ UNCHANGED <<workspaceState, globalState, promptTargetless, rawOutput, lsOutput,
                 activePage, lastTarget, items, userSelection, notices>>
  /\ UNCHANGED <<execVars, mainVars, cfgVars, viewVars>>

\* The listing of the namespace has arrived: back to the default page.
FetchDone ==
  /\ pickPc = "fetching"
  /\ \E output \in RichLsOutputs(fetchNs) :
       /\ rawOutput' = output
       /\ lsOutput' = getFilteredTargets(output)
  /\ activePage' = prepareQuickPick(lsOutput', <<>>, lastTarget).activePage
  /\ items' = prepareQuickPick(lsOutput', <<>>, lastTarget).items
  /\ fetchNs' = <<>>
  /\ pickPc' = "prompt"
  /\ lastEvent' = "fetched"
  /\ UNCHANGED <<workspaceState, globalState, promptTargetless, lastTarget,
                 userSelection, notices>>
  /\ UNCHANGED <<execVars, mainVars, cfgVars, viewVars>>

\* The listing of the namespace fails: showAndGet rejects.
FetchFails ==
  /\ pickPc = "fetching"
  /\ pickPc' = "raised"
  /\ lastEvent' = "raised"
  /\ UNCHANGED <<workspaceState, globalState, promptTargetless, rawOutput, lsOutput,
                 activePage, lastTarget, items, fetchNs, userSelection, notices>>
  /\ UNCHANGED <<execVars, mainVars, cfgVars, viewVars>>

\* The user picks a page: it becomes the active page and is shown.
SelectPage(i) ==
  /\ pickPc = "prompt"
  /\ i \in 1..Len(items)
  /\ items[i].type = "page"
  /\ activePage' = prepareQuickPick(lsOutput, <<items[i].value>>, lastTarget).activePage
  /\ items' = prepareQuickPick(lsOutput, <<items[i].value>>, lastTarget).items
  /\ lastEvent' = "page"
  /\ UNCHANGED <<workspaceState, globalState, promptTargetless, rawOutput, lsOutput,
                 lastTarget, pickPc, fetchNs, userSelection, notices>>
  /\ UNCHANGED <<execVars, mainVars, cfgVars, viewVars>>

\* The user dismisses the quick pick.
Dismiss ==
  /\ pickPc = "prompt"
  /\ notices' = Show(notices, "mirrord running targetless", promptTargetless)
  /\ userSelection' = <<[path |-> <<TARGETLESS>>,
                         namespace |-> lsOutput.current_namespace]>>
  /\ pickPc' = "done"
  /\ lastEvent' = "dismiss"
  /\ UNCHANGED <<workspaceState, globalState, promptTargetless, rawOutput, lsOutput,
                 activePage, lastTarget, items, fetchNs>>
  /\ UNCHANGED <<execVars, mainVars, cfgVars, viewVars>>

\* The user clicks "Don't show again" on the notice.
DontShowAgain ==
  /\ notices # <<>>
  /\ promptTargetless
  /\ promptTargetless' = FALSE
  /\ UNCHANGED <<workspaceState, globalState, rawOutput, lsOutput, activePage,
                 lastTarget, items, pickPc, fetchNs, userSelection, notices, lastEvent>>
  /\ UNCHANGED <<execVars, mainVars, cfgVars, viewVars>>

\* main while it awaits the picker.
MainPicking ==
  /\ enabled = TRUE
  /\ toggles = 0
  /\ statusNotes = <<>>
  /\ platform = "linux"
  /\ pythonExists = FALSE
  /\ config = [type |-> "node", request |-> "launch", parentId |-> FALSE,
               env |-> <<>>, fields |-> <<>>]
  /\ pc = "picking"
  /\ ret = "none"
  /\ configPath = <<>>
  /\ verifiedConfig = "none"
  /\ quickPickSelection = <<>>
  /\ pickKind = "none"
  /\ spawned = <<>>
  /\ executionInfo = <<>>
  /\ failureNotes = <<>>
  /\ effects = [lists |-> 0, prompts |-> 0, spawns |-> 0]
  /\ operatorUsed = FALSE

NextPick ==
  \/ \E output \in RichLsOutputs(<<>>) \cup PlainLsOutputs : New(output)
  \/ NewFails
  \/ \E i \in 1..(MaxTargets + 5) : SelectTarget(i)
  \/ \E i \in 1..(MaxTargets + 5) : SelectNamespace(i)
  \/ FetchDone
  \/ FetchFails
  \/ \E i \in 1..(MaxTargets + 5) : SelectPage(i)
  \/ Dismiss
  \/ DontShowAgain

InitSpecPick ==
  /\ InitPick
  /\ InitExec
  /\ MainPicking
  /\ ConfigIdle
  /\ ViewIdle

SpecPick == InitSpecPick /\ [][NextPick]_vars

(***************************************************************************)
(* Properties of the picker.                                               *)
(***************************************************************************)
\* The prompt on screen shows the page getDefaultPage chose: the first
\* prompt, or the first one after a namespace switch.
DefaultPageShown == pickPc = "prompt" /\ lastEvent \in {"new", "fetched"}

\* The last-selected target as persisted: workspace scope, else global scope.
Persisted == OrElse(workspaceState, globalState)

\* The catalog the picker holds has a target of this type.
TypeHasTarget(targetType) ==
  \E i \in 1..Len(lsOutput.targets) : lsOutput.targets[i].path[1] = targetType

\* The first type with a target, in the order deployment, rollout, pod.
PriorityPage ==
  IF TypeHasTarget("deployment") THEN <<"deployment">>
  ELSE IF TypeHasTarget("rollout") THEN <<"rollout">>
  ELSE IF TypeHasTarget("pod") THEN <<"pod">>
  ELSE <<>>

\* C11: at the first prompt and after every namespace switch, if the type of
\* the persisted last-selected target has a target in the current catalog,
\* the page shown is the page of that type.
C11_LastTargetTypePage ==
  (DefaultPageShown /\ Persisted # <<>> /\ TypeHasTarget(Persisted[1][1]))
    => activePage = <<Persisted[1][1]>>

\* C11: after a namespace switch, a catalog that lists a pod before a
\* deployment is opened on the deployment page of the last-selected target.
C11_Witness ==
  /\ pickPc = "prompt"
  /\ lastEvent = "fetched"
  /\ Persisted = <<<<"deployment", "d">>>>
  /\ Len(lsOutput.targets) = 2
  /\ lsOutput.targets[1].path[1] = "pod"
  /\ lsOutput.targets[2].path[1] = "deployment"
  /\ activePage = <<"deployment">>

\* C12: with no last-selected target, or none of its type in the catalog,
\* the page shown first is the first type with a target in the order
\* deployment, rollout, pod, whatever the order of the catalog.
C12_FallbackInPriorityOrder ==
  (DefaultPageShown /\ (Persisted = <<>> \/ ~TypeHasTarget(Persisted[1][1])))
    => activePage = PriorityPage

\* The prompt on screen is the first one and the filtered catalog is empty.
NoTargetsFirstPrompt ==
  pickPc = "prompt" /\ lastEvent = "new" /\ lsOutput.targets = <<>>

C14_PersistOnlyConcreteTarget ==
  /\ [][IF pickPc = "prompt" /\ pickPc' = "done" /\ lastEvent' = "target"
          THEN /\ workspaceState' = <<userSelection'[1].path>>
               /\ globalState' = <<userSelection'[1].path>>
          ELSE UNCHANGED <<workspaceState, globalState>>]_vars
  /\ [][pickPc # "new" => lastTarget' = lastTarget]_vars

\* The step is the dismissal of a prompt.
Dismissing == pickPc = "prompt" /\ pickPc' = "done" /\ lastEvent' = "dismiss"

\* The step is the pick of the 'no target' item.
PickingTargetless == pickPc = "prompt" /\ pickPc' = "done" /\ lastEvent' = "targetless"

\* The selection is targetless in the namespace of the current catalog.
TargetlessReturned ==
  userSelection' = <<[path |-> <<TARGETLESS>>, namespace |-> lsOutput.current_namespace]>>

\* C15 as stated: a dismissal ends the loop targetless in the current
\* namespace and always shows the notice; the 'no target' pick shows none.
C15_DismissAlwaysNotifies ==
  /\ [][Dismissing => (TargetlessReturned /\ Len(notices') = Len(notices) + 1)]_vars
  /\ [][PickingTargetless => (TargetlessReturned /\ notices' = notices)]_vars

\* C15: a dismissal ends the loop targetless in the current namespace and
\* shows the notice unless the setting mirrord.promptTargetless is false;
\* the 'no target' pick ends it targetless with no notice.
C15_DismissNotifiesUnlessDisabled ==
  /\ [][Dismissing =>
          /\ TargetlessReturned
          /\ notices' = IF promptTargetless
                          THEN Append(notices, "mirrord running targetless")
                          ELSE notices]_vars
  /\ [][PickingTargetless => (TargetlessReturned /\ notices' = notices)]_vars
  /\ [](pickPc = "prompt" => ENABLED Dismiss)

\* C15: the namespace page dismissed with the notice disabled.
C15_Witness ==
  /\ pickPc = "done"
  /\ lastEvent = "dismiss"
  /\ activePage = <<NAMESPACE_SELECTION_PAGE>>
  /\ ~promptTargetless
  /\ notices = <<>>
  /\ userSelection = <<[path |-> <<TARGETLESS>>, namespace |-> lsOutput.current_namespace]>>

\* The listing reports this path as an available target of a type with a page.
AvailableAndSupported(path) ==
  /\ path[1] \in {"deployment", "rollout", "pod"}
  /\ \E i \in 1..Len(rawOutput.targets) : rawOutput.targets[i].path = path
  /\ \A i \in 1..Len(rawOutput.targets) :
       rawOutput.targets[i].path = path => rawOutput.targets[i].available

\* C16: at every prompt every target offered, and the target returned, is
\* one the last listing reports available and of type deployment, rollout
\* or pod.
C16_OnlyAvailableSupportedOffered ==
  /\ pickPc = "prompt" =>
       \A i \in 1..Len(items) :
         (items[i].type = "target" /\ items[i] # TARGETLESS_ITEM)
           => AvailableAndSupported(items[i].value)
  /\ (pickPc = "done" /\ userSelection[1].path # <<TARGETLESS>>)
       => AvailableAndSupported(userSelection[1].path)

\* C16: after a namespace switch the listing holds a target that is dropped
\* and the prompt offers the one that is kept.
C16_Witness ==
  /\ pickPc = "prompt"
  /\ lastEvent = "fetched"
  /\ Len(rawOutput.targets) = 2
  /\ Len(lsOutput.targets) = 1
  /\ \E i \in 1..Len(items) : items[i].type = "target" /\ items[i] # TARGETLESS_ITEM

\* The items offer the target `path`.
Offers(its, path) ==
  \E i \in 1..Len(its) : its[i] = [type |-> "target", value |-> path]

\* The step in which the user picks the target item i of the prompt.
PicksTarget(i) ==
  /\ pickPc = "prompt"
  /\ pickPc' = "done"
  /\ lastEvent' = "target"
  /\ i \in 1..Len(items)
  /\ items[i].type = "target"
  /\ globalState' = <<items[i].value>>

\* C22: at every prompt, each target of the filtered catalog is on the page
\* shown or on a page that one page item of the prompt opens; and picking a
\* target makes the loop return that target's path.
C22_TargetWithinOneNavigation ==
  /\ [](pickPc = "prompt" =>
          \A k \in 1..Len(lsOutput.targets) :
            \/ Offers(items, lsOutput.targets[k].path)
            \/ \E i \in 1..Len(items) :
                 /\ items[i].type = "page"
                 /\ Offers(prepareQuickPick(lsOutput, <<items[i].value>>,
                                            lastTarget).items,
                           lsOutput.targets[k].path))
  /\ [][\A i \in 1..(MaxTargets + 5) :
          PicksTarget(i) => /\ userSelection' # <<>>
                            /\ userSelection'[1].path = items[i].value]_vars

\* C22: the loop has returned a target of the catalog that was not on the
\* default page: the user went to its page first.
C22_Witness ==
  /\ pickPc = "done"
  /\ lastEvent = "target"
  /\ \E k \in 1..Len(lsOutput.targets) : lsOutput.targets[k].path = userSelection[1].path
  /\ activePage # getDefaultPage(lsOutput, lastTarget)
  /\ activePage = <<TargetTypeOf(userSelection[1].path)>>

\* The prompt shows the page of a target type.
OnTargetPage ==
  /\ pickPc = "prompt"
  /\ activePage # <<>>
  /\ activePage[1] # NAMESPACE_SELECTION_PAGE

\* The paths of the catalog's targets of a type, in catalog order.
PathsOfType(targetType) ==
  LET ofType == SelectSeq(lsOutput.targets, LAMBDA t : TargetTypeOf(t.path) = targetType)
  IN [i \in 1..Len(ofType) |-> ofType[i].path]

\* A sequence without the first occurrence of x.
RECURSIVE RemoveFirst(_, _)
RemoveFirst(seq, x) ==
  IF seq = <<>> THEN <<>>
  ELSE IF Head(seq) = x THEN Tail(seq)
  ELSE <<Head(seq)>> \o RemoveFirst(Tail(seq), x)

\* The catalog's paths of a type in the order the page lists them: the last
\* target first when it is among them, the others in catalog order.
LastFirst(paths) ==
  IF lastTarget # <<>> /\ \E i \in 1..Len(paths) : paths[i] = lastTarget[1]
    THEN <<lastTarget[1]>> \o RemoveFirst(paths, lastTarget[1])
    ELSE paths

\* C27: on the page of type t the target items are the catalog's targets of
\* type t, each once, the last-selected target first when it is among them
\* and the others in catalog order; the 'no target' item follows them and no
\* target item follows it.
C27_TargetItemsOfPage ==
  OnTargetPage =>
    LET expected == LastFirst(PathsOfType(activePage[1]))
        n == Len(expected)
    IN /\ Len(items) > n
       /\ \A i \in 1..n : items[i] = [type |-> "target", value |-> expected[i]]
       /\ items[n + 1] = TARGETLESS_ITEM
       /\ \A i \in (n + 2)..Len(items) : items[i].type # "target"

\* C27 witness: the catalog lists pod/a before pod/b, pod/b was selected
\* last, and the pod page lists pod/b first.
C27_Witness ==
  /\ OnTargetPage
  /\ activePage = <<"pod">>
  /\ lastTarget = <<<<"pod", "b">>>>
  /\ Len(lsOutput.targets) = 2
  /\ lsOutput.targets[1].path = <<"pod", "a">>
  /\ lsOutput.targets[2].path = <<"pod", "b">>
  /\ items[1].value = <<"pod", "b">>
  /\ items[2].value = <<"pod", "a">>
  /\ items[3] = TARGETLESS_ITEM

\* The navigation items of a target page: those that follow the 'no target' item.
NavigationItems ==
  SubSeq(items, Len(PathsOfType(activePage[1])) + 2, Len(items))

PicksNamespace(i) ==
  /\ pickPc = "prompt"
  /\ pickPc' = "fetching"
  /\ i \in 1..Len(items)
  /\ items[i].type = "namespace"
  /\ fetchNs' = <<items[i].value>>

\* C29: the namespace page offers the listed namespaces but the current one;
\* picking one starts one listing of that namespace; its answer, filtered,
\* replaces the catalog and the next prompt is the default page of the new
\* catalog; the targets offered and the namespace returned are those of the
\* catalog fetched last.
C29_NamespaceSwitch ==
  /\ []((pickPc = "prompt" /\ activePage = <<NAMESPACE_SELECTION_PAGE>>) =>
          LET offered == SelectSeq(items, LAMBDA it : it.type = "namespace")
              others == SelectSeq(lsOutput.namespaces[1],
                                  LAMBDA ns : <<ns>> # lsOutput.current_namespace)
          IN /\ Len(offered) = Len(others)
             /\ \A i \in 1..Len(others) : offered[i].value = others[i])
  /\ []((pickPc = "prompt") =>
          \A i \in 1..Len(items) :
            (items[i].type = "target" /\ items[i] # TARGETLESS_ITEM) =>
               \E k \in 1..Len(lsOutput.targets) : lsOutput.targets[k].path = items[i].value)
  /\ []((pickPc = "done") => userSelection[1].namespace = lsOutput.current_namespace)
  /\ [][ /\ (pickPc = "prompt" /\ pickPc' = "fetching") =>
              /\ \E i \in 1..(MaxTargets + 5) : PicksNamespace(i)
              /\ lsOutput' = lsOutput
         /\ (pickPc = "fetching" /\ pickPc' = "prompt") =>
              /\ rawOutput' \in RichLsOutputs(fetchNs)
              /\ lsOutput' = getFilteredTargets(rawOutput')
              /\ activePage' = getDefaultPage(lsOutput', lastTarget)
              /\ items' = prepareQuickPick(lsOutput', <<>>, lastTarget).items
              /\ fetchNs' = <<>>
         /\ (pickPc = "fetching" /\ pickPc' # "fetching") =>
              pickPc' \in {"prompt", "raised"} ]_vars

\* C29 witness: the user switched to the namespace ns2 and picked a target
\* of its catalog, which differs from the first catalog.
C29_Witness ==
  /\ pickPc = "done"
  /\ lastEvent = "target"
  /\ userSelection[1].namespace = <<"ns2">>
  /\ \E k \in 1..Len(lsOutput.targets) : lsOutput.targets[k].path = userSelection[1].path

(***************************************************************************)
(* MirrordConfigManager.resolveMirrordConfig (src/unnamed/part_003).  A    *)
(* path is the sequence of its segments; a file name is the sequence of    *)
(* the ranks of its characters in the locale's order.                      *)
(***************************************************************************)
\* The workspace folders a window can have open.
Folders == {"f1", "f2"}

\* The names of the default config files a folder's .mirrord can hold.
FileNames == {<<1>>, <<1, 2>>, <<2>>}

\* The values of MIRRORD_CONFIG_FILE in the launch env, <<>>: not set.
LaunchEnvFiles ==
  {<<>>, <<<<"abs", "mirrord.json">>>>, <<<<"${workspaceFolder}", "mirrord.json">>>>}

\* f1.path.localeCompare(f2.path) < 0, for two files of one directory.
RECURSIVE LocaleLess(_, _)
LocaleLess(a, b) ==
  IF b = <<>> THEN FALSE
  ELSE IF a = <<>> THEN TRUE
  ELSE IF a[1] # b[1] THEN a[1] < b[1]
  ELSE LocaleLess(Tail(a), Tail(b))

\* getDefaultConfig(folder): the first of the folder's default config files
\* after the sort, <<>> (undefined) when there is none.
getDefaultConfig(files, dir) ==
  IF files[dir] = {} THEN <<>>
  ELSE <<[folder |-> dir,
          file |-> CHOOSE f \in files[dir] :
                     \A g \in files[dir] \ {f} : LocaleLess(f, g)]>>

\* processPathFromLaunchConfig(folder, path): ${workspaceFolder} is replaced
\* when there is a folder.
processPathFromLaunchConfig(dir, path) ==
  IF dir = <<>> THEN path
  ELSE [i \in 1..Len(path) |-> IF path[i] = "${workspaceFolder}" THEN dir[1] ELSE path[i]]

\* resolveMirrordConfig(folder, config): what it returns or throws, and the
\* notification it shows.
resolveMirrordConfig(act, envFile, dir, wsFolders, files) ==
  IF act # <<>>
    THEN [outcome |-> "returned", path |-> act,
          notes |-> <<"using active mirrord configuration">>]
  ELSE IF envFile # <<>>
    THEN [outcome |-> "returned",
          path |-> <<processPathFromLaunchConfig(dir, envFile[1])>>,
          notes |-> <<>>]
  ELSE IF dir # <<>> /\ getDefaultConfig(files, dir[1]) # <<>>
    THEN [outcome |-> "returned", path |-> getDefaultConfig(files, dir[1]),
          notes |-> <<"using a default mirrord config">>]
  ELSE IF wsFolders = <<>>
    THEN [outcome |-> "threw", path |-> <<>>, notes |-> <<>>]
  ELSE IF getDefaultConfig(files, wsFolders[1]) # <<>>
    THEN [outcome |-> "returned", path |-> getDefaultConfig(files, wsFolders[1]),
          notes |-> <<"using a default mirrord config from folder">>]
  ELSE [outcome |-> "returned", path |-> <<>>, notes |-> <<>>]

\* A window: its folders, the folder of the launch configuration (one of
\* them, or none), the default config files, the launch env, no active config.
InitConfig ==
  /\ active = <<>>
  /\ launchEnvFile \in LaunchEnvFiles
  /\ workspaceFolders \in {<<>>, <<"f1">>, <<"f1", "f2">>, <<"f2", "f1">>}
  /\ folder \in {<<>>} \cup {<<workspaceFolders[i]>> : i \in 1..Len(workspaceFolders)}
  /\ folderFiles \in [Folders -> SUBSET FileNames]
  /\ resolved = "none"
  /\ resolvedPath = <<>>
  /\ configNotes = <<>>

\* path.startsWith(prefix), on paths as sequences of segments.
startsWith(path, prefix) ==
  Len(prefix) <= Len(path) /\ SubSeq(path, 1, Len(prefix)) = prefix

\* vscode.workspace.asRelativePath(uri): the path below its workspace
\* folder, with the folder's name when the window has several folders; the
\* absolute path when the file is in no workspace folder.
asRelativePath(uri, wsFolders) ==
  IF \E i \in 1..Len(wsFolders) : wsFolders[i] = uri[1]
    THEN IF Len(wsFolders) > 1 THEN uri ELSE Tail(uri)
  ELSE <<"/">> \o uri

\* The message _updateView posts to a webview.
updateView(to, act, wsFolders) ==
  [to |-> to, type |-> "update",
   configPath |-> IF act # <<>> THEN asRelativePath(act[1], wsFolders)
                  ELSE <<"No active configuration">>]

\* setActiveConfig(newConfig): the field is written and every listener is
\* called with the new value; a listener of the config view posts an update
\* to the view `_view` names.
setActiveConfig(newConfig) ==
  /\ Len(posted) + activeConfigListeners <= MaxPosted
  /\ active' = newConfig
  /\ listenerCalls' = [i \in 1..activeConfigListeners |-> newConfig]
  /\ posted' = posted \o [i \in 1..activeConfigListeners |->
                            updateView(view[1], newConfig, workspaceFolders)]
  /\ UNCHANGED <<view, activeConfigListeners, readyInFlight>>

\* The files findFiles("**/*mirrord.{json,toml,yml,yaml}") reports.
WorkspaceConfigFiles ==
  {<<"f1", "mirrord.json">>, <<"f1", "dir", "mirrord.json">>}

\* The selectActiveConfig command: the user picks a file, or the unset
\* entry, which is offered only while a config is active.
SelectActiveConfig(selected) ==
  /\ selected = <<>> => active # <<>>
  /\ setActiveConfig(selected)
  /\ UNCHANGED <<launchEnvFile, folder, workspaceFolders, folderFiles, resolved,
                 resolvedPath, configNotes>>
  /\ UNCHANGED <<execVars, mainVars, pickVars>>

\* main calls resolveMirrordConfig(folder, config).
ResolveMirrordConfigCall ==
  /\ resolved = "none"
  /\ LET r == resolveMirrordConfig(active, launchEnvFile, folder, workspaceFolders,
                                   folderFiles)
     IN /\ resolved' = r.outcome
        /\ resolvedPath' = r.path
        /\ configNotes' = configNotes \o r.notes
  /\ UNCHANGED <<active, launchEnvFile, folder, workspaceFolders, folderFiles>>
  /\ UNCHANGED <<execVars, mainVars, pickVars, viewVars>>

\* main while it awaits resolveMirrordConfig.
MainResolving ==
  /\ enabled = TRUE
  /\ toggles = 0
  /\ statusNotes = <<>>
  /\ platform = "linux"
  /\ pythonExists = FALSE
  /\ config = [type |-> "node", request |-> "launch", parentId |-> FALSE,
               env |-> <<>>, fields |-> <<>>]
  /\ pc = "config"
  /\ ret = "none"
  /\ configPath = <<>>
  /\ verifiedConfig = "none"
  /\ quickPickSelection = <<>>
  /\ pickKind = "none"
  /\ spawned = <<>>
  /\ executionInfo = <<>>
  /\ failureNotes = <<>>
  /\ effects = [lists |-> 0, prompts |-> 0, spawns |-> 0]
  /\ operatorUsed = FALSE

NextConfig ==
  \/ \E selected \in {<<>>} \cup {<<f>> : f \in WorkspaceConfigFiles} :
       SelectActiveConfig(selected)
  \/ ResolveMirrordConfigCall

InitSpecConfig ==
  /\ InitConfig
  /\ InitExec
  /\ MainResolving
  /\ PickIdle
  /\ ViewIdle

SpecConfig == InitSpecConfig /\ [][NextConfig]_vars

\* The alphabetically first default config file of the launch
\* configuration's folder, <<>> when it has none or there is no folder.
FirstDefaultOfFolder ==
  IF folder = <<>> \/ folderFiles[folder[1]] = {} THEN <<>>
  ELSE <<[folder |-> folder[1],
          file |-> CHOOSE f \in folderFiles[folder[1]] :
                     \A g \in folderFiles[folder[1]] : f = g \/ LocaleLess(f, g)]>>

\* C20: resolveMirrordConfig returns the active config if one is set, else
\* the path MIRRORD_CONFIG_FILE gives, else the alphabetically first default
\* config file of the workspace folder, else no config file; it never fails.
C20_ConfigResolutionOrder ==
  [][ (resolved = "none" /\ resolved' # "none") =>
        /\ resolved' = "returned"
        /\ resolvedPath' =
             IF active # <<>> THEN active
             ELSE IF launchEnvFile # <<>>
               THEN <<processPathFromLaunchConfig(folder, launchEnvFile[1])>>
             ELSE FirstDefaultOfFolder ]_vars

(***************************************************************************)
(* MirrordConfigViewProvider (src/unnamed/part_005:235-380) and the file   *)
(* listeners of MirrordConfigManager (src/unnamed/part_003:97-136).  A     *)
(* webview is an external collaborator: whether its script ever posts      *)
(* 'ready' is the webview's choice.                                        *)
(***************************************************************************)
\* A window with one or two folders, with or without an active config; the
\* config view has not been resolved.
InitView ==
  /\ active \in {<<>>} \cup {<<f>> : f \in WorkspaceConfigFiles}
  /\ launchEnvFile = <<>>
  /\ workspaceFolders \in {<<"f1">>, <<"f1", "f2">>}
  /\ folder = <<>>
  /\ folderFiles = [f \in Folders |-> {}]
  /\ resolved = "none"
  /\ resolvedPath = <<>>
  /\ configNotes = <<>>
  /\ ViewIdle

\* resolveWebviewView(webviewView): `_view` is set, the html is set, the
\* message handler and a listener of the config manager are registered, and
\* no update is posted.  `postsReady`: whether the webview runs the script
\* that posts 'ready'.
resolveWebviewView(postsReady) ==
  /\ activeConfigListeners < MaxViews
  /\ view' = <<activeConfigListeners + 1>>
  /\ activeConfigListeners' = activeConfigListeners + 1
  /\ readyInFlight' = IF postsReady THEN readyInFlight \cup {activeConfigListeners + 1}
                      ELSE readyInFlight
  /\ UNCHANGED <<posted, listenerCalls>>
  /\ UNCHANGED <<execVars, mainVars, pickVars, cfgVars>>

\* The handler of a webview's 'ready' message: _updateView on that webview.
WebviewReady ==
  /\ Len(posted) < MaxPosted
  /\ \E id \in readyInFlight :
       /\ readyInFlight' = readyInFlight \ {id}
       /\ posted' = Append(posted, updateView(id, active, workspaceFolders))
  /\ UNCHANGED <<view, activeConfigListeners, listenerCalls>>
  /\ UNCHANGED <<execVars, mainVars, pickVars, cfgVars>>

\* refresh(), the mirrord.refreshConfigView command.
refresh ==
  /\ Len(posted) < MaxPosted
  /\ view # <<>>
  /\ posted' = Append(posted, updateView(view[1], active, workspaceFolders))
  /\ UNCHANGED <<view, activeConfigListeners, readyInFlight, listenerCalls>>
  /\ UNCHANGED <<execVars, mainVars, pickVars, cfgVars>>

\* The onDidDeleteFiles listener: when the active config is at or below a
\* deleted path, a warning is shown and the active config is unset.
DeleteFiles(file) ==
  /\ active # <<>>
  /\ startsWith(active[1], file)
  /\ Len(configNotes) < MaxPosted
  /\ configNotes' = Append(configNotes, "removed active mirrord configuration")
  /\ setActiveConfig(<<>>)
  /\ UNCHANGED <<launchEnvFile, folder, workspaceFolders, folderFiles, resolved,
                 resolvedPath>>
  /\ UNCHANGED <<execVars, mainVars, pickVars>>

\* The onDidRenameFiles listener: when the active config is at or below a
\* moved path, a warning is shown and the active config follows the move.
RenameFiles(oldUri, newUri) ==
  /\ active # <<>>
  /\ startsWith(active[1], oldUri)
  /\ Len(configNotes) < MaxPosted
  /\ configNotes' = Append(configNotes, "moved active mirrord configuration")
  /\ setActiveConfig(<<newUri \o SubSeq(active[1], Len(oldUri) + 1, Len(active[1]))>>)
  /\ UNCHANGED <<launchEnvFile, folder, workspaceFolders, folderFiles, resolved,
                 resolvedPath>>
  /\ UNCHANGED <<execVars, mainVars, pickVars>>

\* The paths the user deletes or moves, and the paths they are moved to.
DeletedPaths == {<<"f1", "mirrord.json">>, <<"f1", "dir">>}
MovedTo == {<<"f1", "moved">>, <<"out">>}

NextView ==
  \/ \E postsReady \in BOOLEAN : resolveWebviewView(postsReady)
  \/ WebviewReady
  \/ refresh
  \/ \E selected \in {<<>>} \cup {<<f>> : f \in WorkspaceConfigFiles} :
       SelectActiveConfig(selected)
  \/ \E file \in DeletedPaths : DeleteFiles(file)
  \/ \E oldUri \in DeletedPaths, newUri \in MovedTo : RenameFiles(oldUri, newUri)

InitSpecView ==
  /\ InitView
  /\ InitExec
  /\ MainResolving
  /\ PickIdle

SpecView == InitSpecView /\ [][NextView]_vars

\* A 'ready' message in flight is delivered to the extension host.
FairSpecView == SpecView /\ WF_vars(WebviewReady)

\* A message to the view `id` has been posted.
UpdateSentTo(id) ==
  \E i \in 1..Len(posted) : posted[i].to = id /\ posted[i].type = "update"

\* C21: once the config view has been resolved its webview is sent an
\* 'update' message with the config path; and every change of the active
\* config calls every registered listener with the new value and sends an
\* 'update' message that reflects it.
C21_UpdateAfterResolveAndChange ==
  /\ \A id \in 1..MaxViews : (activeConfigListeners >= id) ~> UpdateSentTo(id)
  /\ [][ active' # active =>
           /\ listenerCalls' = [i \in 1..activeConfigListeners |-> active']
           /\ activeConfigListeners > 0 =>
                /\ Len(posted') > Len(posted)
                /\ posted'[Len(posted')] =
                     updateView(view[1], active', workspaceFolders) ]_vars

====
